---------------------------- MODULE Spec2Model ----------------------------
(***************************************************************************)
(* A model of sesh's remote-repository subsystem: the TTL file cache       *)
(* (github/cache.go), the GitHub configuration (model/github.go), the      *)
(* provider client (github/client.go), the remote-repo adapter and the     *)
(* listers (lister/github.go, lister/config.go), the cache command         *)
(* (seshcli/cache.go), the connector's remote-repo strategy                *)
(* (connector/github.go), the shorthand converter (github/shorthand.go)    *)
(* and the cloner (cloner/cloner.go).                                      *)
(*                                                                         *)
(* Text.  A Go string that is split on spaces or on "/" is a sequence of   *)
(* words (the pieces between single spaces); a word is a sequence of       *)
(* pieces (the pieces between "/").  "/home/u/my git/x" is                 *)
(*   << <<"", "home", "u", "my">>, <<"git", "x">> >>.                      *)
(* Names that are never split (scope names, repo names, tokens) are plain  *)
(* strings.  In the shorthand converter and the cloner, which work on     *)
(* characters, a string is the sequence of its characters, in config, env *)
(* and fs too.                                                             *)
(*                                                                         *)
(* Time.  now is the wall clock in minutes; a cache timeout is a number of *)
(* minutes, as in the code.                                                *)
(*                                                                         *)
(* Specifications.  Spec: listings through the adapter, over the cache and *)
(* the provider.  SpecCache: Get and Set alone.  SpecOrgs: the effective   *)
(* scope list.  SpecCatalog: the three listers.  SpecConnect: the          *)
(* connector's remote-repo strategy.  SpecShorthand: the shorthand         *)
(* converter on one input.  SpecCloner: Clone on one set of options.       *)
(* SpecListRepos: the single-scope listing.  SpecClear: clearing the cache *)
(* directory.  SpecRace: two invocations writing one scope's cache file.   *)
(* SpecPages: a list operation of the client, page by page.                *)
(* SpecUserRepos: the endpoint choice of ListUserReposWithToken.           *)
(* SpecMkdir: the strategy and Clone where the parent directory cannot be  *)
(* made.  SpecFind: looking a session up by name in the remote catalog.    *)
(***************************************************************************)
EXTENDS Integers, Sequences, FiniteSets, TLC

VARIABLES
    config,      \* model.Config: the GitHub section and the session configs
    env,         \* process environment: GITHUB_TOKEN and the home directory
    remote,      \* the provider: per scope its kind and repositories, the token owner
    cacheFiles,  \* files under <home>/.cache/sesh/github, by scope ("" is the root itself)
    fs,          \* the paths that exist under the clone directories
    now,         \* wall clock, minutes
    ret          \* what the last operation was called with and returned

vars == <<config, env, remote, cacheFiles, fs, now, ret>>

---------------------------------------------------------------------------
(* Bounds of the model *)

\* longest configured scope list (github.organizations)
MaxOrgs == 2
\* the clock runs from 0 to MaxTime
MaxTime == 2
\* longest repository list of a cache entry in the cache specification
MaxRepos == 2
\* longest list of configured sessions, and of tmux sessions
MaxSessions == 2
\* longest owner or repository name given to the shorthand converter, a
\* `.git` suffix not counted
MaxName == 2

\* 30 minutes: the timeout used when cache_timeout is unset
DefaultCacheTimeout == 30

---------------------------------------------------------------------------
(* Text *)

\* a text of one word of one piece
T(s) == << <<s>> >>

Last(s) == s[Len(s)]
Front(s) == SubSeq(s, 1, Len(s) - 1)

\* filepath.Join(a, b) for a relative b: the last word of a and the first
\* word of b become one word, joined by "/"
JoinText(a, b) == Front(a) \o << Last(a) \o b[1] >> \o Tail(b)

\* filepath.Join(dir, e1, ..., en) for elements that hold no space and no "/"
JoinElems(dir, elems) == Front(dir) \o << Last(dir) \o elems >>

\* strings.Split(s, " "): the words, each a text of its own
SplitSpaces(s) == [i \in 1..Len(s) |-> << s[i] >>]

\* strings.Contains(s, "git clone"): a word ending in "git" is followed by a
\* word starting with "clone" (pieces of the model are matched whole)
ContainsGitClone(s) ==
    \E i \in 1..(Len(s) - 1) : Last(s[i]) = "git" /\ s[i + 1][1] = "clone"

\* filepath.Dir and filepath.Base of a path that holds no space
FilepathDir(p) ==
    IF Len(p[1]) <= 1 THEN T(".")
    ELSE IF Len(p[1]) = 2 /\ p[1][1] = "" THEN << <<"", "">> >>
    ELSE << Front(p[1]) >>

FilepathBase(p) == T(Last(p[1]))

\* every directory os.MkdirAll(p) creates or finds: p and its ancestors (a
\* word that is not the last one ends inside a path element)
PathPrefixes(p) ==
    UNION { { SubSeq(p, 1, k - 1) \o << SubSeq(p[k], 1, j) >> :
                j \in (IF k = 1 /\ p[1][1] = "" THEN 2 ELSE 1)..
                      (IF k < Len(p) THEN Len(p[k]) - 1 ELSE Len(p[k])) } :
            k \in 1..Len(p) }

---------------------------------------------------------------------------
(* model/github.go: repositories and the GitHub configuration *)

\* model.GitHubRepo, the fields the listers read
GitHubRepo(owner, name, desc, private, archived, disabled) ==
    [ Name        |-> name,
      FullName    |-> owner \o "/" \o name,
      Description |-> desc,
      CloneURL    |-> T("https://github.com/" \o owner \o "/" \o name \o ".git"),
      SSHURL      |-> T("git@github.com:" \o owner \o "/" \o name \o ".git"),
      Private     |-> private,
      Archived    |-> archived,
      Disabled    |-> disabled ]

\* model.GitHubOrgConfig
GitHubOrgConfig(name, display, token) ==
    [Name |-> name, DisplayName |-> display, Token |-> token]

\* GetOrganizations without the search of lines 62-68: the legacy
\* organization is always appended
GetOrganizations_AlwaysAppends(c) ==
    IF c.Organization # ""
    THEN Append(c.Organizations,
                GitHubOrgConfig(c.Organization, c.Organization, c.Token))
    ELSE c.Organizations

\* GetOrganizations with the search comparing the display alias
GetOrganizations_MatchesAlias(c) ==
    LET orgs  == c.Organizations
        found == \E i \in 1..Len(orgs) : orgs[i].DisplayName = c.Organization
    IN  IF c.Organization # "" /\ ~found
        THEN Append(orgs, GitHubOrgConfig(c.Organization, c.Organization, c.Token))
        ELSE orgs

\* GitHubConfig.GetOrganizations: the scope list plus the legacy single
\* organization when no entry of the list carries its name
GetOrganizations(c) ==
    LET orgs  == c.Organizations
        found == \E i \in 1..Len(orgs) : orgs[i].Name = c.Organization
    IN  IF c.Organization # "" /\ ~found
        THEN Append(orgs, GitHubOrgConfig(c.Organization, c.Organization, c.Token))
        ELSE orgs

\* GitHubConfig.GetTokenForOrg: the first non-empty token of an entry of that
\* name, else the global token, else GITHUB_TOKEN
GetTokenForOrg(c, orgName) ==
    LET hits == { i \in 1..Len(c.Organizations) :
                    /\ c.Organizations[i].Name = orgName
                    /\ c.Organizations[i].Token # "" }
    IN  IF hits # {}
        THEN c.Organizations[CHOOSE i \in hits : \A j \in hits : i <= j].Token
        ELSE IF c.Token # "" THEN c.Token
        ELSE env.GITHUB_TOKEN

\* GitHubConfig.ShouldShowDescription / ShouldShowUncloned: a *bool, "nil" when unset
ShouldShowDescription(c) ==
    IF c.ShowDescription = "nil" THEN TRUE ELSE c.ShowDescription = "true"

\* ShouldShowUncloned with an unset show_uncloned read as false
ShouldShowUncloned_UnsetIsFalse(c) == c.ShowUncloned = "true"

ShouldShowUncloned(c) ==
    IF c.ShowUncloned = "nil" THEN TRUE ELSE c.ShowUncloned = "true"

---------------------------------------------------------------------------
(* github/cache.go: the TTL file cache *)

\* A file of the cache directory.  kind is
\*   "none"        no such file
\*   "dir"         a directory (the cache root, once created)
\*   "unreadable"  a file os.ReadFile fails on
\*   "garbage"     a file json.Unmarshal fails on (damaged, or partly written)
\*   "entry"       a serialized model.GitHubCache {repos, cached_at, expires_at}
NoFile == [kind |-> "none", repos |-> <<>>, expires_at |-> 0]
DirFile == [kind |-> "dir", repos |-> <<>>, expires_at |-> 0]
UnreadableFile == [kind |-> "unreadable", repos |-> <<>>, expires_at |-> 0]
GarbageFile == [kind |-> "garbage", repos |-> <<>>, expires_at |-> 0]
EntryFile(repos, expires) == [kind |-> "entry", repos |-> repos, expires_at |-> expires]

\* RealCache.getCacheFilePath, below <home>/.cache/sesh: the cache root
\* "github" for "", else "github/<org>.json"
CacheRoot == <<"github">>

getCacheFilePath(org) ==
    IF org = "" THEN CacheRoot ELSE Append(CacheRoot, org \o ".json")

\* filepath.Dir of a cache path; <<>> is <home>/.cache/sesh itself
CacheDirOf(path) == Front(path)

NotFound == [found |-> FALSE, repos |-> <<>>]

\* os.ReadFile succeeds: a regular readable file below a directory
Readable(files, path) ==
    /\ files[path].kind \in {"garbage", "entry"}
    /\ CacheDirOf(path) = CacheRoot => files[CacheRoot].kind = "dir"

\* Get without the expiry test of cache.go:49
Get_NeverExpires(files, t, org) ==
    LET cachePath == getCacheFilePath(org)
        f == files[cachePath]
    IN  IF f.kind = "none" THEN NotFound
        ELSE IF ~Readable(files, cachePath) THEN NotFound
        ELSE IF f.kind = "garbage" THEN NotFound
        ELSE [found |-> TRUE, repos |-> f.repos]

\* RealCache.Get on the files `files` at time t
Get(files, t, org) ==
    LET cachePath == getCacheFilePath(org)
        f == files[cachePath]
    IN  IF f.kind = "none" THEN NotFound                  \* os.IsNotExist
        ELSE IF ~Readable(files, cachePath) THEN NotFound \* os.ReadFile fails
        ELSE IF f.kind = "garbage" THEN NotFound          \* json.Unmarshal fails
        ELSE IF t > f.expires_at THEN NotFound            \* time.Now().After(ExpiresAt)
        ELSE [found |-> TRUE, repos |-> f.repos]

\* What the file system lets one Set do: "ok", or the step that fails:
\*   "mkdir"    os.MkdirAll fails
\*   "marshal"  json.MarshalIndent fails
\*   "open"     os.WriteFile fails before it truncates the file
\*   "partial"  os.WriteFile fails after it truncated the file: part of the
\*              document is on disk
SetOutcomes == {"ok", "mkdir", "marshal", "open", "partial"}

\* the outcomes the files allow: MkdirAll fails on a root that is a regular
\* file, WriteFile fails on a directory
SetOutcomesFor(files, org) ==
    LET cachePath == getCacheFilePath(org)
    IN  IF CacheDirOf(cachePath) = CacheRoot /\ files[CacheRoot].kind \notin {"none", "dir"}
        THEN {"mkdir"}
        ELSE IF files[cachePath].kind = "dir"
        THEN {"mkdir", "marshal", "open"}
        ELSE SetOutcomes

\* Set with the timeout subtracted from the time of writing
Set_SubtractsTimeout(files, t, org, repos, timeout, io) ==
    LET cachePath == getCacheFilePath(org)
        made  == IF CacheDirOf(cachePath) = CacheRoot
                 THEN [files EXCEPT ![CacheRoot] = DirFile]
                 ELSE files
    IN  IF io = "mkdir" THEN files
        ELSE IF io \in {"marshal", "open"} THEN made
        ELSE IF io = "partial" THEN [made EXCEPT ![cachePath] = GarbageFile]
        ELSE [made EXCEPT ![cachePath] = EntryFile(repos, t - timeout)]

\* RealCache.Set on the files `files` at time t, with outcome io
Set(files, t, org, repos, timeout, io) ==
    LET cachePath == getCacheFilePath(org)
        made  == IF CacheDirOf(cachePath) = CacheRoot     \* os.MkdirAll(filepath.Dir(cachePath))
                 THEN [files EXCEPT ![CacheRoot] = DirFile]
                 ELSE files
        cache == EntryFile(repos, t + timeout)            \* ExpiresAt: now.Add(timeout minutes)
    IN  IF io = "mkdir" THEN files
        ELSE IF io = "marshal" THEN made
        ELSE IF io = "open" THEN made
        ELSE IF io = "partial" THEN [made EXCEPT ![cachePath] = GarbageFile]
        ELSE [made EXCEPT ![cachePath] = cache]           \* os.WriteFile

---------------------------------------------------------------------------
(* github/client.go: the provider, as the adapter sees it *)

\* an error value: the provider's status and the scope named in its text
\* ("failed to list repositories for org <org>: ...")
NoError == [code |-> "", subject |-> ""]
Error(code, subject) == [code |-> code, subject |-> subject]

\* scope names whose text holds "404"
Names404 == {"org404"}

\* strings.Contains(err.Error(), "404")
ErrorContains404(err) == err.code = "404" \/ err.subject \in Names404

\* RealClient.createGitHubClient: the token the request carries
createGitHubClient(token) == IF token = "" THEN env.GITHUB_TOKEN ELSE token

\* what a request carrying token `tok` sees of a repository list
Visible(tok, repos) == IF tok # "" THEN repos ELSE SelectSeq(repos, LAMBDA r : ~r.Private)

\* RealClient.ListOrgReposWithToken: what may come back. Any request can
\* fail; the organization endpoint answers 404 for a scope that is no
\* organization.
ListOrgReposWithToken(org, token) ==
    LET tok == createGitHubClient(token)
    IN  { [err |-> Error("500", org), repos |-> <<>>] } \cup
        ( IF remote.kind[org] = "org"
          THEN { [err |-> NoError, repos |-> Visible(tok, remote.repos[org])] }
          ELSE { [err |-> Error("404", org), repos |-> <<>>] } )

\* RealClient.GetAuthenticatedUsername
GetAuthenticatedUsername(token) ==
    LET tok == createGitHubClient(token)
    IN  { [err |-> Error("500", ""), login |-> ""] } \cup
        ( IF tok # "" /\ remote.login # ""
          THEN { [err |-> NoError, login |-> remote.login] }
          ELSE { [err |-> Error("401", ""), login |-> ""] } )

\* RealClient.ListAuthenticatedUserReposWithToken: the repositories the
\* token's owner owns, private ones included
ListAuthenticatedUserReposWithToken(token) ==
    LET tok == createGitHubClient(token)
    IN  { [err |-> Error("500", ""), repos |-> <<>>] } \cup
        ( IF tok # "" /\ remote.login # ""
          THEN { [err |-> NoError, repos |-> remote.repos[remote.login]] }
          ELSE { [err |-> Error("401", ""), repos |-> <<>>] } )

\* RealClient.ListUserReposWithToken: the own-repos endpoint when an explicit
\* token is given and its owner is `username`, else the public user endpoint.
\* An outcome names the endpoint asked and what the lookup of the token's
\* owner gave ("none" when it was not made, line 196)
ListUserReposWithToken(username, token) ==
    LET tok == createGitHubClient(token)
        lookups ==
            IF token # ""
            THEN { [code |-> IF u.err = NoError THEN "ok" ELSE u.err.code, login |-> u.login] :
                     u \in GetAuthenticatedUsername(token) }
            ELSE { [code |-> "none", login |-> ""] }
    IN  UNION { IF l.code = "ok" /\ l.login = username
                THEN { [err |-> Error("500", username), repos |-> <<>>,
                        endpoint |-> "own", lookup |-> l.code],
                       [err |-> NoError, repos |-> remote.repos[username],
                        endpoint |-> "own", lookup |-> l.code] }
                ELSE { [err |-> Error("500", username), repos |-> <<>>,
                        endpoint |-> "public", lookup |-> l.code] } \cup
                     ( IF remote.kind[username] \in {"user", "org"}
                       THEN { [err |-> NoError,
                               repos |-> SelectSeq(remote.repos[username],
                                                   LAMBDA r : ~r.Private),
                               endpoint |-> "public", lookup |-> l.code] }
                       ELSE { [err |-> Error("404", username), repos |-> <<>>,
                               endpoint |-> "public", lookup |-> l.code] } )
              : l \in lookups }

\* RealClient.ListUserRepos (lines 131-133), the client holding defaultToken
ListUserRepos(username, defaultToken) == ListUserReposWithToken(username, defaultToken)

---------------------------------------------------------------------------
(* lister/github.go: the remote-repo adapter *)

\* CacheTimeoutOf without the default for an unset timeout
CacheTimeoutOf_NoDefault(c) == c.CacheTimeout

\* the timeout the adapter passes to Set (lines 98-101, 127-130, 142-145)
CacheTimeoutOf(c) ==
    IF c.CacheTimeout = 0 THEN DefaultCacheTimeout ELSE c.CacheTimeout

\* One scope's pass through the loop, for the log of a listing:
\*   get   "skip" (refresh), "hit" or "miss"
\*   who   GetAuthenticatedUsername: "none", "ok" or "err" (personal scope)
\*   org   the organization endpoint: "none", "ok", or the error's code
\*   user  the user endpoint: "none", "ok", or the error's code
\*   own   the own-repos endpoint: "none", "ok", or the error's code
\*   set   "none", or the outcome of the Set the adapter made
\*   ok    the scope got an entry in the result map
\*   file  the scope's cache file as the pass found it
Pass(scope, personal, get, who, org, user, own, set, timeout, repos, ok) ==
    [ scope |-> scope, personal |-> personal, get |-> get, who |-> who,
      org |-> org, user |-> user, own |-> own, set |-> set,
      timeout |-> timeout, repos |-> repos, ok |-> ok, file |-> NoFile ]

\* the log of a listing with one more pass
Logged(st, pass) ==
    Append(st.log, [pass EXCEPT !.file = st.files[getCacheFilePath(pass.scope)]])

\* results[name] = repos
Put(results, name, repos) == (name :> repos) @@ results

\* SkipScope without the continue: the failed scope falls through to
\* results[name] = repos
SkipScope_NoContinue(st, pass) ==
    [st EXCEPT !.results = Put(@, pass.scope, pass.repos), !.log = Logged(st, pass)]

\* a scope whose fetch failed: logged, and the loop continues (lines 87-94)
SkipScope(st, pass) == [st EXCEPT !.log = Logged(st, pass)]

\* a scope served from the cache (lines 67-70)
CacheHit(st, name, personal, who, repos) ==
    [st EXCEPT !.results = Put(@, name, repos),
               !.log = Logged(st, Pass(name, personal, "hit", who, "none", "none",
                                       "none", "none", 0, repos, TRUE))]

\* Fetched with a failed Set treated as a failed fetch
Fetched_NeedsCache(st, t, c, pass) ==
    { [st EXCEPT !.files = Set(st.files, t, pass.scope, pass.repos, CacheTimeoutOf(c), io),
                 !.results = IF io = "ok" THEN Put(@, pass.scope, pass.repos) ELSE @,
                 !.log = Logged(st, [pass EXCEPT !.set = io,
                                                 !.timeout = CacheTimeoutOf(c),
                                                 !.ok = (io = "ok")])] :
        io \in SetOutcomesFor(st.files, pass.scope) }

\* a scope fetched: written to the cache, whatever Set does, and entered in
\* the result map (lines 97-104)
Fetched(st, t, c, pass) ==
    { [st EXCEPT !.files = Set(st.files, t, pass.scope, pass.repos, CacheTimeoutOf(c), io),
                 !.results = Put(@, pass.scope, pass.repos),
                 !.log = Logged(st, [pass EXCEPT !.set = io,
                                                 !.timeout = CacheTimeoutOf(c),
                                                 !.ok = TRUE])] :
        io \in SetOutcomesFor(st.files, pass.scope) }

\* the organization endpoint, then the user endpoint if the error text
\* holds "404" (lines 79-95): the passes that may result
FetchScope(c, name, get) ==
    LET token == GetTokenForOrg(c, name)
    IN  UNION { IF o.err = NoError
                THEN { Pass(name, FALSE, get, "none", "ok", "none", "none", "none",
                            0, o.repos, TRUE) }
                ELSE IF ErrorContains404(o.err)
                THEN { Pass(name, FALSE, get, "none", o.err.code,
                            IF u.err = NoError THEN "ok" ELSE u.err.code,
                            "none", "none", 0, u.repos, u.err = NoError) :
                         u \in ListUserReposWithToken(name, token) }
                ELSE { Pass(name, FALSE, get, "none", o.err.code, "none", "none",
                            "none", 0, <<>>, FALSE) }
              : o \in ListOrgReposWithToken(name, token) }

\* ProcessOrg with a cache miss treated as a failure of the scope
ProcessOrg_FailsOnMiss(st, c, refresh, t, orgConfig) ==
    LET name   == orgConfig.Name
        cached == Get(st.files, t, name)
    IN  IF ~refresh /\ cached.found
        THEN { CacheHit(st, name, FALSE, "none", cached.repos) }
        ELSE IF ~refresh
        THEN { SkipScope(st, Pass(name, FALSE, "miss", "none", "none", "none", "none",
                                  "none", 0, <<>>, FALSE)) }
        ELSE UNION { IF pass.ok THEN Fetched(st, t, c, pass) ELSE { SkipScope(st, pass) }
                     : pass \in FetchScope(c, name, "skip") }

\* ProcessOrg with the cache never asked: every scope is fetched
ProcessOrg_AlwaysFetches(st, c, refresh, t, orgConfig) ==
    UNION { IF pass.ok THEN Fetched(st, t, c, pass) ELSE { SkipScope(st, pass) }
            : pass \in FetchScope(c, orgConfig.Name, "skip") }

\* ProcessOrg with the refresh flag not looked at: the cache is asked first
ProcessOrg_IgnoresRefresh(st, c, refresh, t, orgConfig) ==
    LET name   == orgConfig.Name
        cached == Get(st.files, t, name)
    IN  IF cached.found
        THEN { CacheHit(st, name, FALSE, "none", cached.repos) }
        ELSE UNION { IF pass.ok THEN Fetched(st, t, c, pass) ELSE { SkipScope(st, pass) }
                     : pass \in FetchScope(c, name, "miss") }

\* the body of the loop over the scopes (lines 61-105)
ProcessOrg(st, c, refresh, t, orgConfig) ==
    LET name   == orgConfig.Name
        cached == Get(st.files, t, name)
        get    == IF refresh THEN "skip" ELSE "miss"
    IN  IF ~refresh /\ cached.found
        THEN { CacheHit(st, name, FALSE, "none", cached.repos) }
        ELSE UNION { IF pass.ok THEN Fetched(st, t, c, pass) ELSE { SkipScope(st, pass) }
                     : pass \in FetchScope(c, name, get) }

RECURSIVE ProcessOrgs(_, _, _, _, _, _)
ProcessOrgs(sts, c, refresh, t, orgs, i) ==
    IF i > Len(orgs) THEN sts
    ELSE ProcessOrgs(UNION { ProcessOrg(st, c, refresh, t, orgs[i]) : st \in sts },
                     c, refresh, t, orgs, i + 1)

\* the personal repositories (lines 107-152)
ProcessPersonal(st, c, refresh, t) ==
    LET token == GetTokenForOrg(c, "")
    IN  IF ~c.IncludePersonal \/ token = "" THEN { st }
        ELSE UNION {
            IF who.err # NoError
            THEN { SkipScope(st, Pass("", TRUE, "none", "err", "none", "none", "none",
                                      "none", 0, <<>>, FALSE)) }
            ELSE LET username == who.login
                     cached   == Get(st.files, t, username)
                     get      == IF refresh THEN "skip" ELSE "miss"
                 IN  IF ~refresh /\ cached.found
                     THEN { CacheHit(st, username, TRUE, "ok", cached.repos) }
                     ELSE UNION {
                         IF p.err # NoError
                         THEN { SkipScope(st, Pass(username, TRUE, get, "ok", "none",
                                                   "none", p.err.code, "none", 0, <<>>,
                                                   FALSE)) }
                         ELSE Fetched(st, t, c, Pass(username, TRUE, get, "ok", "none",
                                                     "none", "ok", "none", 0, p.repos,
                                                     TRUE))
                         : p \in ListAuthenticatedUserReposWithToken(token) }
            : who \in GetAuthenticatedUsername(token) }

\* RealGitHub.ListAllReposWithRefresh on the files `files` at time t: every
\* [results, err, files, log] it may end with
ListAllReposWithRefresh(c, refresh, files, t) ==
    LET orgs   == GetOrganizations(c)
        start  == [results |-> <<>>, err |-> NoError, files |-> files, log |-> <<>>]
        looped == ProcessOrgs({ start }, c, refresh, t, orgs, 1)
    IN  UNION { ProcessPersonal(st, c, refresh, t) : st \in looped }

\* one outcome of ListRepos: what it returns, the cache files it leaves,
\* whether it asked the client and with what answer, and what Set did
Listing(repos, err, files, asked, answer, set) ==
    [ repos |-> repos, err |-> err, files |-> files, asked |-> asked,
      answer |-> answer, set |-> set ]

\* ListRepos with the cache written after a failed fetch too
ListRepos_CachesFailure(org, defaultToken, files, t) ==
    LET cached == Get(files, t, org)
        unasked == [err |-> NoError, repos |-> <<>>]
    IN  IF cached.found
        THEN { Listing(cached.repos, NoError, files, FALSE, unasked, "none") }
        ELSE UNION {
            { Listing(IF o.err # NoError THEN <<>> ELSE o.repos,
                      IF o.err # NoError THEN Error("fetch", o.err.subject) ELSE NoError,
                      Set(files, t, org, o.repos, DefaultCacheTimeout, io),
                      TRUE, o, io) :
                io \in SetOutcomesFor(files, org) }
            : o \in ListOrgReposWithToken(org, defaultToken) }

\* RealGitHub.ListRepos (lines 33-51) on the files `files` at time t, the
\* client holding `defaultToken`: the cached list on a hit; else the
\* organization endpoint is asked, a failure is returned wrapped, and a
\* fetched list is handed to Set and returned
ListRepos(org, defaultToken, files, t) ==
    LET cached == Get(files, t, org)
        unasked == [err |-> NoError, repos |-> <<>>]
    IN  IF cached.found
        THEN { Listing(cached.repos, NoError, files, FALSE, unasked, "none") }
        ELSE UNION {
            IF o.err # NoError
            THEN { Listing(<<>>, Error("fetch", o.err.subject), files, TRUE, o, "none") }
            ELSE { Listing(o.repos, NoError,
                           Set(files, t, org, o.repos, DefaultCacheTimeout, io),
                           TRUE, o, io) :
                     io \in SetOutcomesFor(files, org) }
            : o \in ListOrgReposWithToken(org, defaultToken) }

---------------------------------------------------------------------------
(* seshcli/cache.go: clearing the cache directory *)

\* the names a cache directory may hold, in the order os.ReadDir lists
\* them (sorted by file name)
DirNames == <<"acme.json", "beta.json", "notes.txt", "sub">>

\* filepath.Ext(name) == ".json"
HasJSONExt(name) == \E stem \in {"acme", "beta", "u1", "org404"} : name = stem \o ".json"

\* os.ReadDir of the cache root: the names that exist
ReadDir(files) ==
    SelectSeq(DirNames, LAMBDA name : files[Append(CacheRoot, name)].kind # "none")

\* the test of clearGitHubCache's loop with the extension left out
Clearable_AnyFile(files, name) == files[Append(CacheRoot, name)].kind # "dir"

\* the test of clearGitHubCache's loop (line 104): no directory, and a
\* ".json" name
Clearable(files, name) ==
    /\ files[Append(CacheRoot, name)].kind # "dir"
    /\ HasJSONExt(name)

\* the loop of clearGitHubCache from the i-th name on (lines 103-110):
\* os.Remove can fail, which ends the clear with the earlier files removed
RECURSIVE RemoveFrom(_, _, _)
RemoveFrom(files, names, i) ==
    IF i > Len(names) THEN { [err |-> NoError, files |-> files] }
    ELSE IF Clearable(files, names[i])
    THEN { [err |-> Error("remove", names[i]), files |-> files] } \cup
         RemoveFrom([files EXCEPT ![Append(CacheRoot, names[i])] = NoFile], names, i + 1)
    ELSE RemoveFrom(files, names, i + 1)

\* clearGitHubCache on the files `files`: every [err, files] it may end
\* with.  A root that does not exist is no error; os.ReadDir fails on a root
\* that is no directory, and can fail on one that is
clearGitHubCache(files) ==
    IF files[getCacheFilePath("")].kind = "none"
    THEN { [err |-> NoError, files |-> files] }
    ELSE IF files[getCacheFilePath("")].kind # "dir"
    THEN { [err |-> Error("readdir", ""), files |-> files] }
    ELSE { [err |-> Error("readdir", ""), files |-> files] } \cup
         RemoveFrom(files, ReadDir(files), 1)

---------------------------------------------------------------------------
(* github/cache.go once more: Set step by step, for invocations that run   *)
(* at the same time.  The file of a scope is a sequence of pieces; the     *)
(* serialized document has one piece per repository and a closing piece    *)
(* with the expiry.  The pieces of two documents line up: the              *)
(* repositories serialize to the same length (same-length names, URLs and  *)
(* time stamps).                                                           *)

RepoPiece(repo) == [kind |-> "repo", repo |-> repo, expires_at |-> 0]
EndPiece(expires) == [kind |-> "end", repo |-> <<>>, expires_at |-> expires]
HolePiece == [kind |-> "hole", repo |-> <<>>, expires_at |-> 0]

\* json.MarshalIndent with the first repository left out
MarshalPieces_SkipsFirst(repos, expires) ==
    [ i \in 1..(Len(repos) - 1) |-> RepoPiece(repos[i + 1]) ] \o << EndPiece(expires) >>

\* json.MarshalIndent of model.GitHubCache (lines 67-73)
MarshalPieces(repos, expires) ==
    [ i \in 1..Len(repos) |-> RepoPiece(repos[i]) ] \o << EndPiece(expires) >>

\* the document json.Unmarshal accepts: repositories, then the closing
\* piece, and nothing after it
WellFormed(pieces) ==
    /\ pieces # <<>>
    /\ Last(pieces).kind = "end"
    /\ \A i \in 1..(Len(pieces) - 1) : pieces[i].kind = "repo"

\* the file Get finds for the pieces on disk
FileOf(pieces) ==
    IF WellFormed(pieces)
    THEN EntryFile([ i \in 1..(Len(pieces) - 1) |-> pieces[i].repo ],
                   Last(pieces).expires_at)
    ELSE GarbageFile

\* a write of the k-th piece of `data` at its offset: it replaces what is
\* there, and leaves a hole when the file ends before the offset
WriteAt(pieces, data, k) ==
    [ i \in 1..(IF Len(pieces) > k THEN Len(pieces) ELSE k) |->
        IF i = k THEN data[k]
        ELSE IF i <= Len(pieces) THEN pieces[i]
        ELSE HolePiece ]

---------------------------------------------------------------------------
(* github/client.go once more: a list operation page by page.  The         *)
(* provider answers a request for a page with the page's repositories and  *)
(* the number of the page to ask for next, 0 when there is none.           *)

\* github.Repository as the provider sends it: Description is a pointer that
\* may be nil
Repository(owner, name, description) ==
    [Owner |-> owner, Name |-> name, Description |-> description]

\* convertRepo (lines 57-88): a nil description becomes the empty string
convertRepo(repo) ==
    GitHubRepo(repo.Owner, repo.Name,
               IF repo.Description = "nil" THEN "" ELSE repo.Description,
               FALSE, FALSE, FALSE)

\* the loop `for _, repo := range repos { allRepos = append(...) }`
AppendConverted(allRepos, repos) ==
    allRepos \o [ i \in 1..Len(repos) |-> convertRepo(repos[i]) ]

\* what the provider answers to a request carrying opts.Page: a request
\* with Page 0 carries no page number and is answered with the first page
Response(pages, Page) == pages[IF Page = 0 THEN 1 ELSE Page]

\* the state of a list operation before its first request (lines 97-109):
\* no page number set, nothing collected
PageLoopStart(op) ==
    [ op |-> op, pc |-> "loop", Page |-> 0, allRepos |-> <<>>, requested |-> <<>>,
      responses |-> <<>>, repos |-> <<>>, err |-> NoError ]

\* PageLoopStep asking for the page after the one it asked for, whatever
\* the provider named
PageLoopStep_CountsPages(st, resp, failed) ==
    LET asked == [st EXCEPT !.requested = Append(@, st.Page)]
    IN  IF failed
        THEN [asked EXCEPT !.pc = "returned", !.repos = <<>>,
                           !.err = Error("list", st.op)]
        ELSE LET got == [asked EXCEPT !.allRepos = AppendConverted(@, resp.repos),
                                      !.responses = Append(@, resp)]
             IN  IF resp.NextPage = 0
                 THEN [got EXCEPT !.pc = "returned", !.repos = got.allRepos]
                 ELSE [got EXCEPT !.Page = (IF st.Page = 0 THEN 1 ELSE st.Page) + 1]

\* one turn of the loop of a list operation (lines 111-125, 151-165,
\* 213-227, 239-253): the request for opts.Page fails and the operation
\* returns nil and the wrapped error, or it is answered with `resp`, whose
\* repositories are appended; NextPage 0 ends the loop and the operation
\* returns what it collected, any other NextPage is the page asked for next
PageLoopStep(st, resp, failed) ==
    LET asked == [st EXCEPT !.requested = Append(@, st.Page)]
    IN  IF failed
        THEN [asked EXCEPT !.pc = "returned", !.repos = <<>>,
                           !.err = Error("list", st.op)]
        ELSE LET got == [asked EXCEPT !.allRepos = AppendConverted(@, resp.repos),
                                      !.responses = Append(@, resp)]
             IN  IF resp.NextPage = 0
                 THEN [got EXCEPT !.pc = "returned", !.repos = got.allRepos]
                 ELSE [got EXCEPT !.Page = resp.NextPage]

---------------------------------------------------------------------------
(* lister/github.go, lister/config.go, lister/tmux.go: the catalogs *)

\* model.SeshSession, the fields the listers set and the connector reads
SeshSession(src, name, path, startupCommand, disableStartupCommand) ==
    [ Src |-> src, Name |-> name, Path |-> path,
      StartupCommand |-> startupCommand,
      DisableStartupCommand |-> disableStartupCommand ]

\* model.SeshSessions built by a lister's loop from the (key, session) pairs
\* in the order of their append: the index holds every appended key, the
\* directory the last session assigned to each key
Catalog(entries) ==
    [ Directory |->
          [ k \in { entries[i].key : i \in 1..Len(entries) } |->
              LET at == { i \in 1..Len(entries) : entries[i].key = k }
              IN  entries[CHOOSE i \in at : \A j \in at : j <= i].session ],
      OrderedIndex |-> [ i \in 1..Len(entries) |-> entries[i].key ] ]

\* strings.HasPrefix(cloneDir, "~/") and cloneDir[2:]
HasTildePrefix(p) == p[1][1] = "~" /\ Len(p[1]) >= 2
AfterTilde(p) == << Tail(p[1]) >> \o Tail(p)

\* the clone directory of lines 211-220: <home>/git when unset, a leading
\* "~/" replaced by the home directory
CloneDirOf(c) ==
    IF c.CloneDir = T("") THEN JoinElems(env.HOME, <<"git">>)
    ELSE IF HasTildePrefix(c.CloneDir) THEN JoinText(env.HOME, AfterTilde(c.CloneDir))
    ELSE c.CloneDir

\* filepath.Join(cloneDir, "github.com", scope, repo.Name) (line 221)
ClonePath(c, scope, repo) == JoinElems(CloneDirOf(c), <<"github.com", scope, repo.Name>>)

\* fmt.Sprintf("github:%s/%s", scope, repo.Name) (line 243)
GitHubKey(scope, repoName) == "github:" \o scope \o "/" \o repoName

\* the display name of lines 200-209
SessionName(c, displayName, repo) ==
    IF repo.Description # "" /\ ShouldShowDescription(c)
    THEN displayName \o "/" \o repo.Name \o " (" \o repo.Description \o ")"
    ELSE displayName \o "/" \o repo.Name

\* fmt.Sprintf("git clone %s %s && cd %s", path, clonePath, clonePath)
CloneCommand(path, clonePath) ==
    T("git") \o T("clone") \o path \o clonePath \o T("&&") \o T("cd") \o clonePath

\* Skipped testing the archived flag alone
Skipped_ArchivedOnly(repo) == repo.Archived

\* the test of lines 196 and 273
Skipped(repo) == repo.Archived \/ repo.Disabled

\* os.Stat(clonePath) succeeds
Cloned(c, scope, repo, files) == ClonePath(c, scope, repo) \in files

\* the repository passes the tests of lines 196 and 239 (273 and 304)
Shown(c, scope, repo, files) ==
    /\ ~Skipped(repo)
    /\ Cloned(c, scope, repo, files) \/ ShouldShowUncloned(c)

\* RepoSession without line 257: the un-cloned session keeps the URL as path
RepoSession_KeepsURL(c, scope, displayName, repo, files) ==
    LET clonePath == ClonePath(c, scope, repo)
        path == IF c.UseSSH THEN repo.SSHURL ELSE repo.CloneURL
    IN  IF Cloned(c, scope, repo, files)
        THEN SeshSession("github", SessionName(c, displayName, repo), clonePath,
                         T(""), FALSE)
        ELSE SeshSession("github", SessionName(c, displayName, repo), path,
                         CloneCommand(path, clonePath), FALSE)

\* the session of lines 246-258: a cloned repository at its clone path, an
\* un-cloned one at the clone path it will have, with the clone command
RepoSession(c, scope, displayName, repo, files) ==
    LET clonePath == ClonePath(c, scope, repo)
        path == IF c.UseSSH THEN repo.SSHURL ELSE repo.CloneURL
    IN  IF Cloned(c, scope, repo, files)
        THEN SeshSession("github", SessionName(c, displayName, repo), clonePath,
                         T(""), FALSE)
        ELSE SeshSession("github", SessionName(c, displayName, repo), clonePath,
                         CloneCommand(path, clonePath), FALSE)

\* ScopeEntries with the scope's sessions in the reverse of the adapter's
\* order
ScopeEntries_Reversed(c, scope, displayName, repos, files) ==
    LET shown == SelectSeq(repos, LAMBDA r : Shown(c, scope, r, files))
    IN  [ i \in 1..Len(shown) |->
            [ key |-> GitHubKey(scope, shown[Len(shown) + 1 - i].Name),
              session |-> RepoSession(c, scope, displayName,
                                      shown[Len(shown) + 1 - i], files) ] ]

\* the inner loop over one scope's repositories (lines 194-261, 271-326)
ScopeEntries(c, scope, displayName, repos, files) ==
    LET shown == SelectSeq(repos, LAMBDA r : Shown(c, scope, r, files))
    IN  [ i \in 1..Len(shown) |->
            [ key |-> GitHubKey(scope, shown[i].Name),
              session |-> RepoSession(c, scope, displayName, shown[i], files) ] ]

\* the loop over the scopes (lines 188-262)
RECURSIVE EntriesOfOrgs(_, _, _, _, _)
EntriesOfOrgs(c, allRepos, orgs, i, files) ==
    IF i > Len(orgs) THEN <<>>
    ELSE LET orgConfig == orgs[i]
             displayName == IF orgConfig.DisplayName = "" THEN orgConfig.Name
                            ELSE orgConfig.DisplayName
             mine == IF orgConfig.Name \in DOMAIN allRepos
                     THEN ScopeEntries(c, orgConfig.Name, displayName,
                                       allRepos[orgConfig.Name], files)
                     ELSE <<>>
         IN  mine \o EntriesOfOrgs(c, allRepos, orgs, i + 1, files)

\* the personal repositories (lines 265-337), `who` being what
\* GetAuthenticatedUsername answered
PersonalEntries(c, allRepos, who, files) ==
    IF /\ c.IncludePersonal
       /\ GetTokenForOrg(c, "") # ""
       /\ who.err = NoError
       /\ who.login \in DOMAIN allRepos
    THEN ScopeEntries(c, who.login, who.login, allRepos[who.login], files)
    ELSE <<>>

\* listGitHub on the cache files `cfiles` at time t with the paths `files`
\* on disk: every [sessions, err, files, allRepos, who] it may end with, `who`
\* being what GetAuthenticatedUsername answered at line 268
listGitHub(c, refresh, cfiles, t, files) ==
    LET orgs == GetOrganizations(c)
        whos == IF c.IncludePersonal /\ GetTokenForOrg(c, "") # ""
                THEN GetAuthenticatedUsername(GetTokenForOrg(c, ""))
                ELSE { [err |-> NoError, login |-> ""] }
    IN  IF Len(orgs) = 0
        THEN { [sessions |-> Catalog(<<>>), err |-> NoError, files |-> cfiles,
                allRepos |-> <<>>, who |-> [err |-> NoError, login |-> ""]] }
        ELSE UNION {
            IF out.err # NoError
            THEN { [sessions |-> Catalog(<<>>), err |-> out.err, files |-> out.files,
                    allRepos |-> <<>>, who |-> [err |-> NoError, login |-> ""]] }
            ELSE { [sessions |-> Catalog(EntriesOfOrgs(c, out.results, orgs, 1, files)
                                         \o PersonalEntries(c, out.results, who, files)),
                    err |-> NoError, files |-> out.files, allRepos |-> out.results,
                    who |-> who] :
                   who \in whos }
            : out \in ListAllReposWithRefresh(c, refresh, cfiles, t) }

\* model.SessionConfig, the fields listConfig reads
SessionConfig(name, path, startupCommand, disableStartCommand) ==
    [ Name |-> name, Path |-> path, StartupCommand |-> startupCommand,
      DisableStartCommand |-> disableStartCommand ]

\* home.ExpandHome: a leading "~/" replaced by the home directory, or an
\* error when the home directory cannot be found
ExpandHome(path) ==
    { [err |-> Error("home", ""), path |-> T("")],
      [err |-> NoError,
       path |-> IF HasTildePrefix(path) THEN JoinText(env.HOME, AfterTilde(path))
                ELSE path] }

\* listConfigFrom with the mutually exclusive fields a reason to skip the
\* session
RECURSIVE listConfigFrom_Skips(_, _, _)
listConfigFrom_Skips(sessions, i, entries) ==
    IF i > Len(sessions)
    THEN { [sessions |-> Catalog(entries), err |-> NoError] }
    ELSE LET session == sessions[i]
             key == "config:" \o session.Name
         IN  IF session.Name = "" THEN listConfigFrom_Skips(sessions, i + 1, entries)
             ELSE UNION {
                 IF home.err # NoError
                 THEN { [sessions |-> Catalog(<<>>), err |-> home.err] }
                 ELSE IF session.StartupCommand # T("") /\ session.DisableStartCommand
                 THEN listConfigFrom_Skips(sessions, i + 1, entries)
                 ELSE listConfigFrom_Skips(sessions, i + 1,
                          Append(entries,
                                 [ key |-> key,
                                   session |-> SeshSession("config", session.Name,
                                                   home.path, session.StartupCommand,
                                                   session.DisableStartCommand) ]))
                 : home \in ExpandHome(session.Path) }

\* listConfig after the sessions before index i gave `entries`: the key is
\* appended before the two checks, either of which returns an empty
\* SeshSessions with an error (lines 16-29)
RECURSIVE listConfigFrom(_, _, _)
listConfigFrom(sessions, i, entries) ==
    IF i > Len(sessions)
    THEN { [sessions |-> Catalog(entries), err |-> NoError] }
    ELSE LET session == sessions[i]
             key == "config:" \o session.Name
         IN  IF session.Name = "" THEN listConfigFrom(sessions, i + 1, entries)
             ELSE UNION {
                 IF home.err # NoError
                 THEN { [sessions |-> Catalog(<<>>), err |-> home.err] }
                 ELSE IF session.StartupCommand # T("") /\ session.DisableStartCommand
                 THEN { [sessions |-> Catalog(<<>>), err |-> Error("exclusive", "")] }
                 ELSE listConfigFrom(sessions, i + 1,
                          Append(entries,
                                 [ key |-> key,
                                   session |-> SeshSession("config", session.Name,
                                                   home.path, session.StartupCommand,
                                                   session.DisableStartCommand) ]))
                 : home \in ExpandHome(session.Path) }

\* listConfig (lines 13-45)
listConfig(c) == listConfigFrom(c.SessionConfigs, 1, <<>>)

\* listTmux on the sessions tmux reports, `blacklisted` being the names
\* isBlacklisted answers true for
listTmux(tmuxSessions, blacklisted) ==
    LET kept == SelectSeq(tmuxSessions, LAMBDA session : session.Name \notin blacklisted)
    IN  [ sessions |-> Catalog([ i \in 1..Len(kept) |->
                                   [ key |-> "tmux:" \o kept[i].Name,
                                     session |-> SeshSession("tmux", kept[i].Name,
                                                     kept[i].Path, T(""), FALSE) ] ]),
          err |-> NoError ]

---------------------------------------------------------------------------
(* connector/github.go: the remote-repo strategy *)

\* model.SeshSession{} and model.Connection
NoSession == SeshSession("", "", T(""), T(""), FALSE)
Connection(found, session, new, addToZoxide) ==
    [Found |-> found, Session |-> session, New |-> new, AddToZoxide |-> addToZoxide]

\* FindGitHubSession answering with some session of the catalog when none
\* has the name
FindGitHubSession_FallsBack(sessions, name) ==
    LET byName == { k \in DOMAIN sessions.Directory : sessions.Directory[k].Name = name }
    IN  IF byName # {}
        THEN { [session |-> sessions.Directory[k], exists |-> TRUE] : k \in byName }
        ELSE IF DOMAIN sessions.Directory # {}
        THEN { [session |-> sessions.Directory[k], exists |-> TRUE] :
                 k \in DOMAIN sessions.Directory }
        ELSE { [session |-> NoSession, exists |-> FALSE] }

\* RealLister.FindGitHubSession on the catalog listGitHub gave it: a session
\* of that display name, whichever the map's iteration meets first, else the
\* session under that key
FindGitHubSession(sessions, name) ==
    LET byName == { k \in DOMAIN sessions.Directory : sessions.Directory[k].Name = name }
    IN  IF byName # {}
        THEN { [session |-> sessions.Directory[k], exists |-> TRUE] : k \in byName }
        ELSE IF name \in DOMAIN sessions.Directory
        THEN { [session |-> sessions.Directory[name], exists |-> TRUE] }
        ELSE { [session |-> NoSession, exists |-> FALSE] }

\* the startup command is one the strategy takes apart (lines 19 and 24)
IsCloneCommand(cmd) ==
    /\ cmd # T("")
    /\ ContainsGitClone(cmd)
    /\ Len(SplitSpaces(cmd)) >= 4
    /\ SplitSpaces(cmd)[1] = T("git")
    /\ SplitSpaces(cmd)[2] = T("clone")

\* Materialize without the Stat of line 35: git clone runs whether or not
\* the target exists
Materialize_AlwaysClones(session, files) ==
    LET parts     == SplitSpaces(session.StartupCommand)
        clonePath == parts[4]
        parentDir == FilepathDir(clonePath)
        made      == files \cup PathPrefixes(parentDir)
        rewritten == [session EXCEPT !.Path = clonePath, !.StartupCommand = T("")]
        cloneArgs == << parts[3], parentDir, FilepathBase(clonePath) >>
    IN  IF ~IsCloneCommand(session.StartupCommand)
        THEN { [session |-> session, err |-> NoError, disk |-> files, calls |-> <<>>,
                args |-> <<>>, mkdir |-> "none"] }
        ELSE { [session |-> NoSession, err |-> Error("mkdir", ""), disk |-> files,
                calls |-> <<"MkdirAll">>, args |-> <<>>, mkdir |-> "failed"],
               [session |-> NoSession, err |-> Error("clone", ""), disk |-> made,
                calls |-> <<"MkdirAll", "Clone">>, args |-> cloneArgs, mkdir |-> "ok"],
               [session |-> rewritten, err |-> NoError,
                disk |-> made \cup { JoinText(parentDir, FilepathBase(clonePath)) },
                calls |-> <<"MkdirAll", "Clone">>, args |-> cloneArgs, mkdir |-> "ok"] }

\* lines 19-46 on the paths `files` on disk: every [session, err, disk,
\* calls, args] they may end with, `calls` being the file-system and git
\* operations made, `args` what git.Clone was called with (line 37) and
\* `mkdir` what os.MkdirAll answered (line 30).
\* MkdirAll and git clone can fail; Stat can fail otherwise than with
\* not-exist, and then nothing is cloned.
Materialize(session, files) ==
    LET parts     == SplitSpaces(session.StartupCommand)
        clonePath == parts[4]
        parentDir == FilepathDir(clonePath)
        made      == files \cup PathPrefixes(parentDir)
        rewritten == [session EXCEPT !.Path = clonePath, !.StartupCommand = T("")]
        cloneArgs == << parts[3], parentDir, FilepathBase(clonePath) >>
    IN  IF ~IsCloneCommand(session.StartupCommand)
        THEN { [session |-> session, err |-> NoError, disk |-> files, calls |-> <<>>,
                args |-> <<>>, mkdir |-> "none"] }
        ELSE { [session |-> NoSession, err |-> Error("mkdir", ""), disk |-> files,
                calls |-> <<"MkdirAll">>, args |-> <<>>, mkdir |-> "failed"],
               [session |-> rewritten, err |-> NoError, disk |-> made,
                calls |-> <<"MkdirAll", "Stat">>, args |-> <<>>, mkdir |-> "ok"] } \cup
             ( IF clonePath \in made THEN {}
               ELSE { [session |-> NoSession, err |-> Error("clone", ""), disk |-> made,
                       calls |-> <<"MkdirAll", "Stat", "Clone">>,
                       args |-> cloneArgs, mkdir |-> "ok"],
                      [session |-> rewritten, err |-> NoError,
                       disk |-> made \cup { JoinText(parentDir, FilepathBase(clonePath)) },
                       calls |-> <<"MkdirAll", "Stat", "Clone">>,
                       args |-> cloneArgs, mkdir |-> "ok"] } )

\* githubStrategy: every [conn, err, files, disk, seen, sessions, calls,
\* args, mkdir] it may end with, `sessions` being the catalog the lister built and `seen`
\* the session it found there
githubStrategy(c, name, cfiles, t, files) ==
    UNION { UNION {
        IF ~hit.exists
        THEN { [conn |-> Connection(FALSE, NoSession, FALSE, FALSE), err |-> NoError,
                files |-> out.files, disk |-> files, seen |-> NoSession,
                sessions |-> out.sessions, calls |-> <<>>, args |-> <<>>,
                mkdir |-> "none"] }
        ELSE { [conn |-> IF m.err = NoError
                         THEN Connection(TRUE, m.session, TRUE, TRUE)
                         ELSE Connection(FALSE, NoSession, FALSE, FALSE),
                err |-> m.err, files |-> out.files, disk |-> m.disk,
                seen |-> hit.session, sessions |-> out.sessions,
                calls |-> m.calls, args |-> m.args, mkdir |-> m.mkdir] :
               m \in Materialize(hit.session, files) }
        : hit \in FindGitHubSession(out.sessions, name) }
      : out \in listGitHub(c, FALSE, cfiles, t, files) }

---------------------------------------------------------------------------
(* github/shorthand.go: shorthand and URL inputs.  Here a string is the    *)
(* sequence of its characters.                                             *)

\* the character class [a-zA-Z0-9._-]
NameChars ==
    { "a", "b", "c", "d", "e", "f", "g", "h", "i",
      "j", "k", "l", "m", "n", "o", "p", "q", "r",
      "s", "t", "u", "v", "w", "x", "y", "z",
      "A", "B", "C", "D", "E", "F", "G", "H", "I",
      "J", "K", "L", "M", "N", "O", "P", "Q", "R",
      "S", "T", "U", "V", "W", "X", "Y", "Z",
      "0", "1", "2", "3", "4", "5", "6", "7", "8", "9", ".", "_", "-" }

\* the literals of the two patterns and of ConvertToURL
SchemeHTTPS == <<"h", "t", "t", "p", "s", ":", "/", "/">>
SchemeHTTP == <<"h", "t", "t", "p", ":", "/", "/">>
WWWDot == <<"w", "w", "w", ".">>
HostSlash == <<"g", "i", "t", "h", "u", "b", ".", "c", "o", "m", "/">>
DotGit == <<".", "g", "i", "t">>
SSHPrefix == <<"g", "i", "t", "@", "g", "i", "t", "h", "u", "b", ".", "c", "o", "m", ":">>
HTTPSPrefix == SchemeHTTPS \o HostSlash

HasPrefix(s, p) == Len(s) >= Len(p) /\ SubSeq(s, 1, Len(p)) = p
Drop(s, n) == SubSeq(s, n + 1, Len(s))
AllNameChars(s) == \A i \in 1..Len(s) : s[i] \in NameChars

\* no match, and a match with its two groups
NoMatchOf == [ok |-> FALSE, org |-> <<>>, repo |-> <<>>]
MatchOf(org, repo) == [ok |-> TRUE, org |-> org, repo |-> repo]

\* githubShorthandRegex.FindStringSubmatch (line 13): one "/", with a
\* non-empty run of the class on each side
MatchShorthand(s) ==
    LET slashes == { i \in 1..Len(s) : s[i] = "/" }
        k == CHOOSE i \in slashes : TRUE
    IN  IF /\ Cardinality(slashes) = 1
           /\ 1 < k /\ k < Len(s)
           /\ AllNameChars(SubSeq(s, 1, k - 1))
           /\ AllNameChars(Drop(s, k))
        THEN MatchOf(SubSeq(s, 1, k - 1), Drop(s, k))
        ELSE NoMatchOf

\* what may follow the second group: (?:\.git)?/?$
URLTails == { <<>>, DotGit, <<"/">>, DotGit \o <<"/">> }

\* githubURLRegex.FindStringSubmatch with the greedy second group standing
\* for the `.git` suffix as the second group may not end before one
MatchURL_StripsDotGit(s) ==
    LET noScheme == IF HasPrefix(s, SchemeHTTPS) THEN Drop(s, Len(SchemeHTTPS))
                    ELSE IF HasPrefix(s, SchemeHTTP) THEN Drop(s, Len(SchemeHTTP))
                    ELSE s
        noWWW    == IF HasPrefix(noScheme, WWWDot) THEN Drop(noScheme, Len(WWWDot))
                    ELSE noScheme
        path     == Drop(noWWW, Len(HostSlash))
        slashes  == { i \in 1..Len(path) : path[i] = "/" }
        k        == CHOOSE i \in slashes : \A j \in slashes : i <= j
        rest     == Drop(path, k)
        ends     == { n \in 1..Len(rest) :
                        /\ AllNameChars(SubSeq(rest, 1, n))
                        /\ Drop(rest, n) \in URLTails }
        n        == CHOOSE m \in ends : \A j \in ends : m <= j
    IN  IF /\ HasPrefix(noWWW, HostSlash)
           /\ slashes # {}
           /\ k > 1 /\ AllNameChars(SubSeq(path, 1, k - 1))
           /\ ends # {}
        THEN MatchOf(SubSeq(path, 1, k - 1), SubSeq(rest, 1, n))
        ELSE NoMatchOf

\* githubURLRegex.FindStringSubmatch (line 14): an optional scheme, an
\* optional "www.", "github.com/", the first group up to the next "/", and
\* for the second group the longest run of the class that leaves one of
\* URLTails (the group is greedy and the class holds ".", "g", "i", "t")
MatchURL(s) ==
    LET noScheme == IF HasPrefix(s, SchemeHTTPS) THEN Drop(s, Len(SchemeHTTPS))
                    ELSE IF HasPrefix(s, SchemeHTTP) THEN Drop(s, Len(SchemeHTTP))
                    ELSE s
        noWWW    == IF HasPrefix(noScheme, WWWDot) THEN Drop(noScheme, Len(WWWDot))
                    ELSE noScheme
        path     == Drop(noWWW, Len(HostSlash))
        slashes  == { i \in 1..Len(path) : path[i] = "/" }
        k        == CHOOSE i \in slashes : \A j \in slashes : i <= j
        rest     == Drop(path, k)
        ends     == { n \in 1..Len(rest) :
                        /\ AllNameChars(SubSeq(rest, 1, n))
                        /\ Drop(rest, n) \in URLTails }
        n        == CHOOSE m \in ends : \A j \in ends : j <= m
    IN  IF /\ HasPrefix(noWWW, HostSlash)
           /\ slashes # {}
           /\ k > 1 /\ AllNameChars(SubSeq(path, 1, k - 1))
           /\ ends # {}
        THEN MatchOf(SubSeq(path, 1, k - 1), SubSeq(rest, 1, n))
        ELSE NoMatchOf

\* RealShorthandConverter.IsGitHubShorthand
IsGitHubShorthand(input) == MatchShorthand(input).ok \/ MatchURL(input).ok

\* RealShorthandConverter.ExtractOrgAndRepo: the shorthand pattern first,
\* then the URL pattern
ExtractOrgAndRepo(input) ==
    IF MatchShorthand(input).ok
    THEN [org |-> MatchShorthand(input).org, repo |-> MatchShorthand(input).repo,
          err |-> NoError]
    ELSE IF MatchURL(input).ok
    THEN [org |-> MatchURL(input).org, repo |-> MatchURL(input).repo, err |-> NoError]
    ELSE [org |-> <<>>, repo |-> <<>>, err |-> Error("format", "")]

\* RealShorthandConverter.ConvertToURL
ConvertToURL(input, c) ==
    LET got == ExtractOrgAndRepo(input)
    IN  IF got.err # NoError THEN [url |-> <<>>, err |-> got.err]
        ELSE [url |-> (IF c.UseSSH THEN SSHPrefix ELSE HTTPSPrefix)
                      \o got.org \o <<"/">> \o got.repo \o DotGit,
              err |-> NoError]

---------------------------------------------------------------------------
(* cloner/cloner.go and GetClonePath of github/shorthand.go: cloning a    *)
(* repository and connecting to it.  A string is the sequence of its      *)
(* characters.                                                             *)

\* literals of the cloner
TildeSlash == <<"~", "/">>
DefaultCloneDir == <<"~", "/", "g", "i", "t">>
GitAt == <<"g", "i", "t", "@">>
SlashSlash == <<"/", "/">>
Cwd == <<"/", "t">>

HasSuffix(s, p) == Len(s) >= Len(p) /\ SubSeq(s, Len(s) - Len(p) + 1, Len(s)) = p
TrimSuffix(s, p) == IF HasSuffix(s, p) THEN SubSeq(s, 1, Len(s) - Len(p)) ELSE s

\* strings.LastIndex counted from 1, and 0 for a character that is absent
LastIndex(s, ch) ==
    LET at == { i \in 1..Len(s) : s[i] = ch }
    IN  IF at = {} THEN 0 ELSE CHOOSE i \in at : \A j \in at : j <= i

\* strings.Split at a character
RECURSIVE Split(_, _)
Split(s, ch) ==
    LET at == { i \in 1..Len(s) : s[i] = ch }
        k == CHOOSE i \in at : \A j \in at : i <= j
    IN  IF at = {} THEN <<s>>
        ELSE <<SubSeq(s, 1, k - 1)>> \o Split(Drop(s, k), ch)

\* strings.Trim of a character at both ends
RECURSIVE Trim(_, _)
Trim(s, ch) ==
    IF s # <<>> /\ s[1] = ch THEN Trim(Drop(s, 1), ch)
    ELSE IF s # <<>> /\ Last(s) = ch THEN Trim(Front(s), ch)
    ELSE s

\* expandHome: os.UserHomeDir answers $HOME and fails when it is empty
expandHome(path) ==
    IF HasPrefix(path, TildeSlash) /\ env.HOME # <<>>
    THEN env.HOME \o Drop(path, 1)
    ELSE path

\* RealShorthandConverter.GetClonePath
GetClonePath(org, repo, c) ==
    IF c.CloneDir # <<>>
    THEN expandHome(c.CloneDir \o <<"/">> \o HostSlash \o org \o <<"/">> \o repo)
    ELSE expandHome(DefaultCloneDir \o <<"/">> \o HostSlash \o org \o <<"/">> \o repo)

\* getRepoName
getRepoName(url) == TrimSuffix(Last(Split(url, "/")), DotGit)

\* getPath, os.Getwd answering Cwd
getPath(opts) ==
    (IF opts.CmdDir # <<>> THEN opts.CmdDir ELSE Cwd) \o <<"/">> \o
    (IF opts.Dir # <<>> THEN opts.Dir ELSE getRepoName(opts.Repo))

\* the characters of a URL scheme after its first
SchemeChars == (NameChars \ {"_"}) \cup {"+"}

\* url.Parse of an input without query, fragment and user: a leading ":"
\* is an error; a scheme is a run of SchemeChars before the first ":"; after
\* a scheme "//" opens the host, which ends at the next "/"
URLParse(s) ==
    LET others == { i \in 1..Len(s) : s[i] \notin SchemeChars }
        k      == CHOOSE i \in others : \A j \in others : i <= j
        rest   == Drop(s, k)
        auth   == Drop(rest, Len(SlashSlash))
        slash  == { i \in 1..Len(auth) : auth[i] = "/" }
        h      == CHOOSE i \in slash : \A j \in slash : i <= j
    IN  IF others = {} \/ s[k] # ":"
        THEN [err |-> NoError, Host |-> <<>>, Path |-> s]
        ELSE IF k = 1
        THEN [err |-> Error("url", ""), Host |-> <<>>, Path |-> <<>>]
        ELSE IF HasPrefix(rest, SlashSlash)
        THEN IF slash = {} THEN [err |-> NoError, Host |-> auth, Path |-> <<>>]
             ELSE [err |-> NoError, Host |-> SubSeq(auth, 1, h - 1),
                   Path |-> Drop(auth, h - 1)]
        ELSE IF HasPrefix(rest, <<"/">>)
        THEN [err |-> NoError, Host |-> <<>>, Path |-> rest]
        ELSE [err |-> NoError, Host |-> <<>>, Path |-> <<>>]

\* parseGitURL on an SSH URL split at ":" (lines 136-149)
parseSSHURL(parts) ==
    LET none      == [err |-> NoError, domain |-> <<>>, org |-> <<>>, repo |-> <<>>]
        pathParts == Split(TrimSuffix(parts[2], DotGit), "/")
        domain    == Split(parts[1], "@")[2]
    IN  IF Len(parts) # 2 THEN [none EXCEPT !.err = Error("ssh url", "")]
        ELSE IF Len(pathParts) >= 2
        THEN [none EXCEPT !.domain = domain, !.org = pathParts[1], !.repo = pathParts[2]]
        ELSE [none EXCEPT !.domain = domain]

\* parseGitURL on what url.Parse answered (lines 152-164)
parseParsedURL(u) ==
    LET none      == [err |-> NoError, domain |-> <<>>, org |-> <<>>, repo |-> <<>>]
        pathParts == Split(Trim(u.Path, "/"), "/")
    IN  IF u.err # NoError THEN [none EXCEPT !.err = u.err]
        ELSE IF Len(pathParts) >= 2
        THEN [none EXCEPT !.domain = u.Host, !.org = pathParts[1],
                          !.repo = TrimSuffix(pathParts[2], DotGit)]
        ELSE [none EXCEPT !.domain = u.Host]

\* RealCloner.parseGitURL
parseGitURL(gitURL) ==
    IF HasPrefix(gitURL, GitAt) THEN parseSSHURL(Split(gitURL, ":"))
    ELSE parseParsedURL(URLParse(gitURL))

\* model.GitCloneOptions
GitCloneOptions(repo, cmdDir, dir) == [Repo |-> repo, CmdDir |-> cmdDir, Dir |-> dir]

\* the clone path split into opts.CmdDir and opts.Dir at its last "/"
SplitClonePath(opts, clonePath) ==
    LET lastSlash == LastIndex(clonePath, "/")
    IN  IF lastSlash > 1
        THEN [opts EXCEPT !.CmdDir = SubSeq(clonePath, 1, lastSlash - 1),
                          !.Dir = Drop(clonePath, lastSlash)]
        ELSE opts

\* lines 40-61 of Clone, a GitHub shorthand: `url` is what ConvertToURL
\* answered and `got` what ExtractOrgAndRepo answered
GitHubTarget(opts, c, url, got) ==
    LET unplaced == opts.CmdDir = <<>> /\ opts.Dir = <<>>
    IN  IF url.err # NoError
        THEN [err |-> url.err, repoURL |-> <<>>, opts |-> opts]
        ELSE IF unplaced /\ got.err # NoError
        THEN [err |-> got.err, repoURL |-> <<>>, opts |-> opts]
        ELSE IF unplaced
        THEN [err |-> NoError, repoURL |-> url.url,
              opts |-> SplitClonePath(opts, GetClonePath(got.org, got.repo, c.GitHub))]
        ELSE [err |-> NoError, repoURL |-> url.url, opts |-> opts]

\* lines 62-85 of Clone, another git repository: `parsed` is what
\* parseGitURL answered and `cloneDir` the expanded clone directory
OtherTarget(opts, parsed, cloneDir) ==
    IF /\ opts.CmdDir = <<>> /\ opts.Dir = <<>>
       /\ parsed.err = NoError
       /\ parsed.domain # <<>> /\ parsed.org # <<>> /\ parsed.repo # <<>>
    THEN [err |-> NoError, repoURL |-> opts.Repo,
          opts |-> SplitClonePath(opts,
                       cloneDir \o <<"/">> \o parsed.domain \o <<"/">> \o
                       parsed.org \o <<"/">> \o parsed.repo)]
    ELSE [err |-> NoError, repoURL |-> opts.Repo, opts |-> opts]

\* lines 37-86 of Clone: the URL to clone and where to
CloneTarget(opts, c) ==
    IF IsGitHubShorthand(opts.Repo)
    THEN GitHubTarget(opts, c, ConvertToURL(opts.Repo, c.GitHub),
                      ExtractOrgAndRepo(opts.Repo))
    ELSE OtherTarget(opts, parseGitURL(opts.Repo),
                     expandHome(IF c.GitHub.CloneDir = <<>> THEN DefaultCloneDir
                                ELSE c.GitHub.CloneDir))

\* a directory and its ancestors, as os.MkdirAll leaves them
DirWithParents(dir) ==
    { dir } \cup { SubSeq(dir, 1, i - 1) : i \in { j \in 2..Len(dir) : dir[j] = "/" } }

\* the directory `git clone` names after the URL when it is given none
Humanish(repoURL) ==
    TrimSuffix(Last(Split(Last(Split(Trim(repoURL, "/"), "/")), ":")), DotGit)

\* git.Clone(repoURL, cmdDir, dir): it fails, or it creates the directory of
\* the clone, which must not exist yet
GitClone(repoURL, cmdDir, dir, files) ==
    LET made == (IF cmdDir # <<>> THEN cmdDir ELSE Cwd) \o <<"/">> \o
                (IF dir # <<>> THEN dir ELSE Humanish(repoURL))
    IN  { [err |-> Error("clone", ""), disk |-> files, made |-> <<>>] } \cup
        ( IF made \in files THEN {}
          ELSE { [err |-> NoError, disk |-> files \cup { made }, made |-> made] } )

\* one call the cloner made
Call(what, err, made) == [what |-> what, err |-> err, made |-> made]

\* the end of Clone with the connector called whatever the clone answered
ConnectAfterClone_Always(opts, cloned, calls) ==
    LET path == getPath(opts)
        tried == Append(calls, Call("Clone", cloned.err, cloned.made))
    IN  { [path |-> <<>>, err |-> Error("connect", ""), disk |-> cloned.disk,
           calls |-> Append(tried, Call("Connect", Error("connect", ""), <<>>))],
          [path |-> path, err |-> NoError, disk |-> cloned.disk,
           calls |-> Append(tried, Call("Connect", NoError, <<>>))] }

\* lines 95-106 of Clone after git.Clone answered `cloned`: a failed clone
\* returns its error; else the connector is called with the path, and its
\* error returned
ConnectAfterClone(opts, cloned, calls) ==
    LET path == getPath(opts)
        tried == Append(calls, Call("Clone", cloned.err, cloned.made))
    IN  IF cloned.err # NoError
        THEN { [path |-> <<>>, err |-> cloned.err, disk |-> cloned.disk,
                calls |-> tried] }
        ELSE { [path |-> <<>>, err |-> Error("connect", ""), disk |-> cloned.disk,
                calls |-> Append(tried, Call("Connect", Error("connect", ""), <<>>))],
               [path |-> path, err |-> NoError, disk |-> cloned.disk,
                calls |-> Append(tried, Call("Connect", NoError, <<>>))] }

\* lines 94-106 of Clone on the disk `files`
CloneAndConnect(repoURL, opts, files, calls) ==
    UNION { ConnectAfterClone(opts, cloned, calls) :
              cloned \in GitClone(repoURL, opts.CmdDir, opts.Dir, files) }

\* CloneSteps going on to the clone after a failed os.MkdirAll
CloneSteps_IgnoresMkdir(target, files) ==
    IF target.err # NoError
    THEN { [path |-> <<>>, err |-> target.err, disk |-> files, calls |-> <<>>] }
    ELSE IF target.opts.CmdDir = <<>>
    THEN CloneAndConnect(target.repoURL, target.opts, files, <<>>)
    ELSE CloneAndConnect(target.repoURL, target.opts, files,
                         << Call("MkdirAll", Error("mkdir", ""), <<>>) >>) \cup
         CloneAndConnect(target.repoURL, target.opts,
                         files \cup DirWithParents(target.opts.CmdDir),
                         << Call("MkdirAll", NoError, target.opts.CmdDir) >>)

\* lines 88-106 of Clone for the target of lines 37-86
CloneSteps(target, files) ==
    IF target.err # NoError
    THEN { [path |-> <<>>, err |-> target.err, disk |-> files, calls |-> <<>>] }
    ELSE IF target.opts.CmdDir = <<>>
    THEN CloneAndConnect(target.repoURL, target.opts, files, <<>>)
    ELSE { [path |-> <<>>, err |-> Error("mkdir", ""), disk |-> files,
            calls |-> << Call("MkdirAll", Error("mkdir", ""), <<>>) >>] } \cup
         CloneAndConnect(target.repoURL, target.opts,
                         files \cup DirWithParents(target.opts.CmdDir),
                         << Call("MkdirAll", NoError, target.opts.CmdDir) >>)

\* RealCloner.Clone on the disk `files`: every [path, err, disk, calls] it
\* may end with
Clone(opts, c, files) == CloneSteps(CloneTarget(opts, c), files)

---------------------------------------------------------------------------
(* The values the specifications draw from *)

\* sequences over S without repetition, of length at most n
RECURSIVE SeqsUpTo(_, _)
SeqsUpTo(S, n) ==
    IF n = 0 THEN { <<>> }
    ELSE LET shorter == SeqsUpTo(S, n - 1)
         IN  shorter \cup { Append(q, x) : <<q, x>> \in
                 { qx \in shorter \X S :
                     \A i \in 1..Len(qx[1]) : qx[1][i] # qx[2] } }

\* sequences over S of length at most n
RECURSIVE AllSeqsUpTo(_, _)
AllSeqsUpTo(S, n) ==
    IF n = 0 THEN { <<>> }
    ELSE LET shorter == AllSeqsUpTo(S, n - 1)
         IN  shorter \cup { Append(q, x) : <<q, x>> \in shorter \X S }

\* two repositories of one owner; the second is archived
Widgets(owner) == GitHubRepo(owner, "widgets", "", FALSE, FALSE, FALSE)
Gadgets(owner) == GitHubRepo(owner, "gadgets", "old", FALSE, TRUE, FALSE)

\* the repository lists a cache entry may hold in the cache specification
RepoLists == SeqsUpTo({Widgets("acme"), Gadgets("acme")}, MaxRepos)

\* the scopes with a place in the cache directory
CacheScopes == {"", "acme", "beta", "u1", "org404"}
CachePaths == { getCacheFilePath(o) : o \in CacheScopes }

\* cache_timeout values of a configuration, and what the adapter passes for them
ConfigTimeouts == {-1, 0, 1}
AdapterTimeouts == { CacheTimeoutOf([CacheTimeout |-> x]) : x \in ConfigTimeouts }

\* model.GitHubConfig
GitHubConfig(orgs, legacy, token, timeout, cloneDir, ssh, personal, uncloned, description) ==
    [ Organization |-> legacy, Organizations |-> orgs, Token |-> token,
      CacheTimeout |-> timeout, CloneDir |-> cloneDir, UseSSH |-> ssh,
      IncludePersonal |-> personal, ShowUncloned |-> uncloned,
      ShowDescription |-> description ]

NoGitHubConfig == GitHubConfig(<<>>, "", "", 0, T(""), FALSE, FALSE, "nil", "nil")

\* model.Config
Config(github, sessions) == [GitHub |-> github, SessionConfigs |-> sessions]

HomeDir == << <<"", "home", "u">> >>
NoEnv == [GITHUB_TOKEN |-> "", HOME |-> HomeDir]
NoRemote == [ kind  |-> [o \in CacheScopes |-> "none"],
              repos |-> [o \in CacheScopes |-> <<>>],
              login |-> "" ]
NoFiles == [p \in CachePaths |-> NoFile]

---------------------------------------------------------------------------
(* The adapter over the cache and the provider *)

\* a private repository of one owner, and a disabled one
Secret(owner) == GitHubRepo(owner, "secret", "mine", TRUE, FALSE, FALSE)
Broken(owner) == GitHubRepo(owner, "broken", "", FALSE, FALSE, TRUE)

\* the provider: two organizations, a user who owns the tokens, and an
\* organization whose name holds "404"
Provider ==
    [ kind  |-> [o \in CacheScopes |->
                    IF o \in {"acme", "beta", "org404"} THEN "org"
                    ELSE IF o = "u1" THEN "user" ELSE "none"],
      repos |-> [o \in CacheScopes |->
                    IF o = "acme" THEN <<Widgets("acme"), Gadgets("acme")>>
                    ELSE IF o = "beta" THEN <<Broken("beta"), Widgets("beta")>>
                    ELSE IF o = "org404" THEN <<Widgets("org404")>>
                    ELSE IF o = "u1" THEN <<Widgets("u1"), Gadgets("u1"), Secret("u1")>>
                    ELSE <<>>],
      login |-> "u1" ]

Acme == GitHubOrgConfig("acme", "", "")
Beta == GitHubOrgConfig("beta", "B", "orgtok")
User1 == GitHubOrgConfig("u1", "", "")
Org404 == GitHubOrgConfig("org404", "", "")

\* the configurations of the adapter specification
AdapterConfigs ==
    { GitHubConfig(<<Acme, Beta>>, "", "tok", 0, T(""), FALSE, FALSE, "nil", "nil"),
      GitHubConfig(<<Acme>>, "", "tok", 1, T(""), FALSE, TRUE, "nil", "nil"),
      GitHubConfig(<<User1>>, "", "tok", 1, T(""), FALSE, TRUE, "nil", "nil"),
      GitHubConfig(<<Acme, Acme>>, "", "", -1, T(""), FALSE, FALSE, "nil", "nil"),
      GitHubConfig(<<>>, "beta", "", 0, T(""), FALSE, TRUE, "nil", "nil"),
      GitHubConfig(<<Org404, Acme>>, "", "", 1, T(""), FALSE, FALSE, "nil", "nil") }

\* the scopes a configuration lists: its organizations and, with personal
\* repositories on, the user behind the token
ScopesOf(c) ==
    { GetOrganizations(c)[i].Name : i \in 1..Len(GetOrganizations(c)) } \cup
    (IF c.IncludePersonal THEN {Provider.login} ELSE {})

\* the cache directory a run may find: empty, or with the file of one of the
\* configuration's scopes unreadable, damaged, or left by an earlier run
FoundFiles(c) ==
    { NoFiles } \cup
    { [NoFiles EXCEPT ![CacheRoot] = DirFile, ![getCacheFilePath(o)] = f] :
        <<o, f>> \in (ScopesOf(c) \cap {"acme", "u1"}) \X
                     {UnreadableFile, GarbageFile, EntryFile(<<>>, 0)} }

\* the environment of a configuration: GITHUB_TOKEN is set where the
\* configuration itself has no token
EnvOf(c) == IF c.Token = "" THEN [NoEnv EXCEPT !.GITHUB_TOKEN = "envtok"] ELSE NoEnv

Init ==
    /\ config \in { Config(g, <<>>) : g \in AdapterConfigs }
    /\ env = EnvOf(config.GitHub)
    /\ remote = Provider
    /\ cacheFiles \in FoundFiles(config.GitHub)
    /\ fs = {}
    /\ now = 0
    /\ ret = [op |-> "init"]

\* time passes
Tick ==
    /\ now < MaxTime
    /\ now' = now + 1
    /\ ret' = [op |-> "Tick"]
    /\ UNCHANGED <<config, env, remote, cacheFiles, fs>>

\* a call of RealGitHub.ListAllReposWithRefresh (ListAllRepos when refresh
\* is false)
ListAll ==
    \E refresh \in BOOLEAN :
      \E out \in ListAllReposWithRefresh(config.GitHub, refresh, cacheFiles, now) :
        /\ cacheFiles' = out.files
        /\ ret' = [op |-> "ListAllReposWithRefresh", refresh |-> refresh,
                   results |-> out.results, err |-> out.err, log |-> out.log]
        /\ UNCHANGED <<config, env, remote, fs, now>>

Next == Tick \/ ListAll

Spec == Init /\ [][Next]_vars

---------------------------------------------------------------------------
(* Listings: partial failure, cache misses, failed cache writes *)

\* the last step was a listing
Listed == ret.op = "ListAllReposWithRefresh"

\* a pass that ended with a cache hit or a successful fetch
Served(pass) ==
    pass.get = "hit" \/ pass.org = "ok" \/ pass.user = "ok" \/ pass.own = "ok"

\* the scopes of the served passes of a log
ServedScopes(log) == { log[i].scope : i \in { j \in 1..Len(log) : Served(log[j]) } }

\* every configured scope had its pass, in the configured order, and the
\* personal pass followed if personal repositories are on and a token exists
EveryScopeTried ==
    LET orgs == GetOrganizations(config.GitHub)
        personal == config.GitHub.IncludePersonal /\ GetTokenForOrg(config.GitHub, "") # ""
    IN  /\ Len(ret.log) = Len(orgs) + (IF personal THEN 1 ELSE 0)
        /\ \A k \in 1..Len(orgs) :
              ret.log[k].scope = orgs[k].Name /\ ~ret.log[k].personal
        /\ personal => ret.log[Len(ret.log)].personal

\* a later pass of the same listing served the same scope
LaterServed(i) ==
    \E j \in (i + 1)..Len(ret.log) :
        ret.log[j].scope = ret.log[i].scope /\ Served(ret.log[j])

\* the listing's entry for the scope of pass i is the list that pass got
EntryIsFrom(i) ==
    /\ ret.log[i].scope \in DOMAIN ret.results
    /\ ~LaterServed(i) => ret.results[ret.log[i].scope] = ret.log[i].repos

\* C1: a listing returns a nil error and a map whose keys are exactly the
\* scopes that had a cache hit or a successful fetch; every scope is tried
\* whatever became of the scopes before it
C1_PartialFailureContainment ==
    Listed =>
        /\ ret.err = NoError
        /\ DOMAIN ret.results = ServedScopes(ret.log)
        /\ EveryScopeTried
        /\ \A i \in 1..Len(ret.log) : Served(ret.log[i]) => EntryIsFrom(i)

\* a listing whose first scope failed and whose second scope is in the map
C1_Witness ==
    /\ Listed
    /\ Len(ret.log) >= 2
    /\ ~Served(ret.log[1])
    /\ Served(ret.log[2])
    /\ DOMAIN ret.results = { ret.log[2].scope }
    /\ ret.log[1].scope # ret.log[2].scope

\* the four conditions of a cache miss, of a scope's file at time t
FileMissing(file) == file.kind = "none"
FileUnreadable(file) == file.kind \in {"unreadable", "dir"}
FileNotDeserializable(file) == file.kind = "garbage"
FileExpired(file, t) == file.kind = "entry" /\ t > file.expires_at
Miss(file, t) ==
    \/ FileMissing(file)
    \/ FileUnreadable(file)
    \/ FileNotDeserializable(file)
    \/ FileExpired(file, t)

\* the lists the provider may answer with for a scope
FetchedLists(scope) ==
    { remote.repos[scope], SelectSeq(remote.repos[scope], LAMBDA r : ~r.Private) }

\* the pass asked the client for the scope's repositories
AskedClient(pass) == IF pass.personal THEN pass.own # "none" ELSE pass.org # "none"

\* C9: in a non-refresh listing, a scope whose cache file is missing,
\* unreadable, not deserializable or expired is a miss, is fetched from the
\* client, and its entry is the fetched list; the listing does not fail
C9_MissDegradesToFetch ==
    (Listed /\ ~ret.refresh) =>
        /\ ret.err = NoError
        /\ \A i \in 1..Len(ret.log) :
              (ret.log[i].who # "err" /\ Miss(ret.log[i].file, now)) =>
                  /\ ret.log[i].get = "miss"
                  /\ AskedClient(ret.log[i])
                  /\ Served(ret.log[i]) =>
                        /\ ret.log[i].repos \in FetchedLists(ret.log[i].scope)
                        /\ EntryIsFrom(i)

\* a non-refresh listing that found one scope's entry expired and another
\* scope's file missing, and fetched both
C9_Witness ==
    /\ Listed /\ ~ret.refresh
    /\ \E i, j \in 1..Len(ret.log) :
          /\ FileExpired(ret.log[i].file, now)
          /\ FileMissing(ret.log[j].file)
          /\ Served(ret.log[i]) /\ Served(ret.log[j])
          /\ ret.results[ret.log[i].scope] # ret.log[i].file.repos

\* the pass called Set and Set failed
SetFailed(pass) == pass.set \notin {"none", "ok"}

\* the scope's cache file after pass i: as the scope's next pass found it,
\* or as the listing left it
FileAfter(i) ==
    LET later == { j \in (i + 1)..Len(ret.log) : ret.log[j].scope = ret.log[i].scope }
    IN  IF later = {} THEN cacheFiles[getCacheFilePath(ret.log[i].scope)]
        ELSE ret.log[CHOOSE j \in later : \A k \in later : j <= k].file

\* C10 as stated: after a failed Set the scope's cache file is as it was
\* before, or absent
C10_PreviousStateStays ==
    Listed =>
        \A i \in 1..Len(ret.log) :
            SetFailed(ret.log[i]) => FileAfter(i) \in { ret.log[i].file, NoFile }

\* C10: after a failed Set the scope's cache file is as it was before, or,
\* if the write failed part-way, a file that does not deserialize; the
\* listing has no error, holds the fetched list for the scope, and went on
\* to the remaining scopes
C10_BestEffortWrite ==
    Listed =>
        \A i \in 1..Len(ret.log) :
            SetFailed(ret.log[i]) =>
                /\ FileAfter(i) \in { ret.log[i].file, GarbageFile }
                /\ ret.log[i].set # "partial" => FileAfter(i) = ret.log[i].file
                /\ ret.err = NoError
                /\ ret.log[i].repos \in FetchedLists(ret.log[i].scope)
                /\ EntryIsFrom(i)
                /\ EveryScopeTried

\* a refresh listing whose first Set failed part-way over a readable entry,
\* and whose next scope was served
C10_Witness ==
    /\ Listed
    /\ Len(ret.log) >= 2
    /\ ret.log[1].set = "partial"
    /\ ret.log[1].file.kind = "entry"
    /\ FileAfter(1) = GarbageFile
    /\ Served(ret.log[2])
    /\ ret.log[1].scope # ret.log[2].scope
    /\ DOMAIN ret.results = { ret.log[1].scope, ret.log[2].scope }

\* Get's test of a cache file at time t: a readable entry not yet expired
Hit(file, t) == file.kind = "entry" /\ ~(t > file.expires_at)

\* the pass called no endpoint of the client and no Set
NothingInvoked(pass) ==
    /\ pass.org = "none"
    /\ pass.user = "none"
    /\ pass.own = "none"
    /\ pass.set = "none"

\* C23: in a non-refresh listing, a scope whose cache file is a hit gets the
\* cached list as its result, and for that scope neither the organization
\* endpoint, nor the user endpoint, nor the own-repos endpoint, nor Set is
\* invoked: the scope's file stays as it was
C23_CacheFirstRead ==
    (Listed /\ ~ret.refresh) =>
        \A i \in 1..Len(ret.log) :
            Hit(ret.log[i].file, now) =>
                /\ ret.log[i].get = "hit"
                /\ NothingInvoked(ret.log[i])
                /\ ret.log[i].repos = ret.log[i].file.repos
                /\ ret.results[ret.log[i].scope] = ret.log[i].file.repos
                /\ FileAfter(i) = ret.log[i].file

\* a non-refresh listing that served one scope from a cached list the
\* provider would not have answered with, and fetched another scope
C23_Witness ==
    /\ Listed /\ ~ret.refresh
    /\ \E i, j \in 1..Len(ret.log) :
          /\ Hit(ret.log[i].file, now)
          /\ ret.results[ret.log[i].scope] \notin FetchedLists(ret.log[i].scope)
          /\ ret.log[j].get = "miss"
          /\ ret.log[j].org = "ok"

\* the last pass of a listing that served its scope
LastServed(i) == Served(ret.log[i]) /\ ~LaterServed(i)

\* every non-refresh listing of the current configuration on the current
\* cache files at time t has `repos` as the list of `scope`
NextListingReturns(t, scope, repos) ==
    \A out \in ListAllReposWithRefresh(config.GitHub, FALSE, cacheFiles, t) :
        /\ scope \in DOMAIN out.results
        /\ out.results[scope] = repos

\* every non-refresh listing of the current configuration on the current
\* cache files at time t that gets to `scope` serves it from the cache with
\* `repos`; it gets to the scope unless the scope is the personal one and
\* the lookup of the user's name failed
NextListingServes(t, scope, repos) ==
    \A out \in ListAllReposWithRefresh(config.GitHub, FALSE, cacheFiles, t) :
        /\ \A k \in 1..Len(out.log) :
              out.log[k].scope = scope =>
                  /\ out.log[k].get = "hit"
                  /\ out.results[scope] = repos
        /\ \/ \E k \in 1..Len(out.log) : out.log[k].scope = scope
           \/ \E k \in 1..Len(out.log) : out.log[k].who = "err"

\* in a refresh listing Get is invoked for no scope, and every scope whose
\* name is known is asked of the client
NoGetAllFetched ==
    \A i \in 1..Len(ret.log) :
        /\ ret.log[i].get \notin {"hit", "miss"}
        /\ ret.log[i].who # "err" => AskedClient(ret.log[i])
        /\ Served(ret.log[i]) => ret.log[i].set # "none"

\* C24 as claimed: in a refresh listing Get is never invoked, every scope is
\* fetched from the client, and after every successful fetch a following
\* non-refresh listing returns the refreshed list
C24_RefreshBypassesCache ==
    (Listed /\ ret.refresh) =>
        /\ NoGetAllFetched
        /\ \A i \in 1..Len(ret.log) :
              LastServed(i) =>
                  NextListingReturns(now, ret.log[i].scope, ret.log[i].repos)

\* C24, amended: in a refresh listing Get is never invoked, every scope is
\* fetched from the client and every fetched list is handed to Set; where
\* that Set succeeded with a timeout that is not negative, the scope's file
\* holds the refreshed list and a following non-refresh listing, up to the
\* entry's expiry, returns it for the scope if it gets to the scope
C24_RefreshThenCached ==
    (Listed /\ ret.refresh) =>
        /\ NoGetAllFetched
        /\ \A i \in 1..Len(ret.log) :
              (LastServed(i) /\ ret.log[i].set = "ok" /\ ret.log[i].timeout >= 0) =>
                  /\ FileAfter(i).kind = "entry"
                  /\ FileAfter(i).repos = ret.log[i].repos
                  /\ \A t \in now..MaxTime :
                        t <= now + ret.log[i].timeout =>
                            NextListingServes(t, ret.log[i].scope, ret.log[i].repos)

\* a refresh listing that replaced the cached list of one scope by another
\* list, and wrote the fetched list of a second scope
C24_Witness ==
    /\ Listed /\ ret.refresh
    /\ \E i, j \in 1..Len(ret.log) :
          /\ ret.log[i].scope # ret.log[j].scope
          /\ Hit(ret.log[i].file, now)
          /\ ret.log[i].file.repos # ret.log[i].repos
          /\ ret.log[i].set = "ok" /\ ret.log[j].set = "ok"
          /\ Get(cacheFiles, now, ret.log[i].scope).repos = ret.log[i].repos

\* C25: the user endpoint is invoked for a scope exactly when the
\* organization endpoint failed with not-found (status 404); after any other
\* failure of the organization endpoint the scope is skipped without the
\* user endpoint being invoked; after a success it is not invoked either
C25_OrgToUserFallback ==
    Listed =>
        \A i \in 1..Len(ret.log) :
            ~ret.log[i].personal =>
                /\ ret.log[i].user # "none" <=> ret.log[i].org = "404"
                /\ ret.log[i].org \notin {"none", "ok", "404"} =>
                      /\ ret.log[i].user = "none"
                      /\ ~Served(ret.log[i])
                /\ ret.log[i].org = "ok" => ret.log[i].user = "none"

\* the pass got a list from the client: from the organization endpoint, from
\* the user endpoint after it, or from the own-repos endpoint
FetchSucceeded(pass) == pass.org = "ok" \/ pass.user = "ok" \/ pass.own = "ok"

\* the timeout a listing is to hand to Set: the configured one, or 30
ConfiguredTimeout ==
    IF config.GitHub.CacheTimeout = 0 THEN 30 ELSE config.GitHub.CacheTimeout

\* C26: Set is invoked for a scope exactly when the scope's fetch succeeded,
\* with the fetched list and the configured timeout (30 when it is 0), so
\* that a Set that succeeds leaves an entry with that list expiring that
\* many minutes later; a scope whose fetch failed keeps its cache file
C26_SetAfterSuccessfulFetch ==
    Listed =>
        \A i \in 1..Len(ret.log) :
            /\ ret.log[i].set # "none" <=> FetchSucceeded(ret.log[i])
            /\ FetchSucceeded(ret.log[i]) =>
                  /\ ret.log[i].timeout = ConfiguredTimeout
                  /\ ret.log[i].repos \in FetchedLists(ret.log[i].scope)
                  /\ ret.log[i].set = "ok" =>
                        FileAfter(i) = EntryFile(ret.log[i].repos, now + ConfiguredTimeout)
            /\ (AskedClient(ret.log[i]) /\ ~FetchSucceeded(ret.log[i])) =>
                  FileAfter(i) = ret.log[i].file

\* a listing with an unset timeout that wrote the fetched list of one scope
\* and left the readable entry of a scope whose fetch failed
C26_Witness ==
    /\ Listed
    /\ \E i, j \in 1..Len(ret.log) :
          /\ ret.log[i].set = "ok"
          /\ ret.log[i].timeout = DefaultCacheTimeout
          /\ ret.log[j].org \notin {"none", "ok"}
          /\ ~FetchSucceeded(ret.log[j])
          /\ ret.log[j].file.kind = "entry"
          /\ cacheFiles[getCacheFilePath(ret.log[j].scope)] = ret.log[j].file

\* the last listing fetched every scope, the personal one too if personal
\* repositories are on, and wrote every fetched list to the cache, with a
\* timeout that does not make the entries expired as written
AllFetchedAndCached ==
    /\ Listed
    /\ EveryScopeTried
    /\ Len(ret.log) > 0
    /\ \A i \in 1..Len(ret.log) :
          /\ FetchSucceeded(ret.log[i])
          /\ ret.log[i].set = "ok"
          /\ ret.log[i].timeout >= 0

\* the pass made no call to the client: no list endpoint, no lookup of the
\* user's name
NoClientCall(pass) ==
    /\ pass.org = "none"
    /\ pass.user = "none"
    /\ pass.own = "none"
    /\ pass.who = "none"

\* C33 as claimed: after a listing that fetched and cached every scope, a
\* following non-refresh listing of the same configuration returns the same
\* map and makes no call to the client
C33_RepeatedListingFromCache ==
    AllFetchedAndCached =>
        \A out \in ListAllReposWithRefresh(config.GitHub, FALSE, cacheFiles, now) :
            /\ out.results = ret.results
            /\ \A k \in 1..Len(out.log) : NoClientCall(out.log[k])

\* C33, amended: after a listing that fetched and cached every scope, a
\* following non-refresh listing of the same configuration made before the
\* entries expire calls no list endpoint and no Set and leaves the cache as
\* it is; its only call to the client is the lookup of the user's name for
\* the personal scope; it returns the same map if that lookup succeeds, and
\* the same map without the personal scope's pass if it fails
C33_RepeatedListingFromCacheButLookup ==
    AllFetchedAndCached =>
        \A t \in now..MaxTime :
            t <= now + ConfiguredTimeout =>
                \A out \in ListAllReposWithRefresh(config.GitHub, FALSE, cacheFiles, t) :
                    /\ out.files = cacheFiles
                    /\ \A k \in 1..Len(out.log) :
                          /\ NothingInvoked(out.log[k])
                          /\ out.log[k].who # "none" <=> out.log[k].personal
                          /\ out.log[k].who # "err" => out.log[k].get = "hit"
                    /\ \A o \in DOMAIN out.results :
                          o \in DOMAIN ret.results /\ out.results[o] = ret.results[o]
                    /\ (\A k \in 1..Len(out.log) : out.log[k].who # "err") =>
                          out.results = ret.results

\* a listing that fetched and cached an organization and the personal
\* repositories, over a cache file that was damaged
C33_Witness ==
    /\ AllFetchedAndCached
    /\ Len(ret.log) = 2
    /\ ret.log[2].personal
    /\ ret.log[1].scope # ret.log[2].scope
    /\ \E i \in 1..2 : ret.log[i].file.kind = "garbage"
    /\ Cardinality(DOMAIN ret.results) = 2

---------------------------------------------------------------------------
(* The catalogs of the three listers *)

\* two organizations and the personal repositories, over SSH
TwoOrgsAndPersonal ==
    GitHubConfig(<<Acme, Beta>>, "", "tok", 0, T(""), TRUE, TRUE, "true", "true")

\* the configurations of the catalog specification
CatalogConfigs ==
    { GitHubConfig(<<Acme>>, "", "tok", 0, T(""), FALSE, FALSE, "nil", "nil"),
      GitHubConfig(<<User1>>, "", "tok", 0, << <<"~", "src">> >>, TRUE, TRUE,
                   "false", "true"),
      GitHubConfig(<<Acme, Acme>>, "", "", 0, << <<"", "data", "my">>, <<"repos">> >>,
                   FALSE, FALSE, "nil", "nil"),
      GitHubConfig(<<Beta>>, "", "", 0, T(""), FALSE, TRUE, "true", "false"),
      GitHubConfig(<<>>, "", "tok", 0, T(""), FALSE, TRUE, "nil", "nil"),
      TwoOrgsAndPersonal }

\* the session configurations of the catalog specification
SessionConfigChoices ==
    { SessionConfig(name, << <<"~", "p">> >>, cmd, disable) :
        <<name, cmd, disable>> \in {"", "a", "b"} \X {T(""), T("vim")} \X BOOLEAN }

\* what is on disk: nothing, or the clones of the repositories of the given
\* names for every scope of the configuration, with their parent directories
DiskWith(c, names) ==
    UNION { UNION { PathPrefixes(ClonePath(c, o, Provider.repos[o][i])) :
                      i \in { j \in 1..Len(Provider.repos[o]) :
                                Provider.repos[o][j].Name \in names } } :
            o \in ScopesOf(c) }

DiskChoices(c) ==
    { DiskWith(c, names) : names \in { {}, {"widgets"}, {"gadgets", "broken", "secret"} } }

\* the sessions tmux reports: their names are unique in a tmux server
TmuxNames == {"a", "b"}
TmuxSession(name) == [Name |-> name, Path |-> << <<"", "w", name>> >>]
TmuxLists == SeqsUpTo({ TmuxSession(n) : n \in TmuxNames }, MaxSessions)

InitCatalog ==
    /\ config \in { Config(g, <<>>) : g \in CatalogConfigs } \cup
                  { Config(NoGitHubConfig, ss) : ss \in AllSeqsUpTo(SessionConfigChoices, MaxSessions) }
    /\ env = EnvOf(config.GitHub)
    /\ remote = Provider
    /\ cacheFiles = NoFiles
    /\ fs \in DiskChoices(config.GitHub)
    /\ now = 0
    /\ ret = [op |-> "init"]

\* a call of listGitHub
ListGitHub ==
    \E refresh \in BOOLEAN :
      \E out \in listGitHub(config.GitHub, refresh, cacheFiles, now, fs) :
        /\ cacheFiles' = out.files
        /\ ret' = [op |-> "listGitHub", refresh |-> refresh, sessions |-> out.sessions,
                   err |-> out.err, allRepos |-> out.allRepos, who |-> out.who]
        /\ UNCHANGED <<config, env, remote, fs, now>>

\* a call of listConfig
ListConfig ==
    \E out \in listConfig(config) :
        /\ ret' = [op |-> "listConfig", sessions |-> out.sessions, err |-> out.err]
        /\ UNCHANGED <<config, env, remote, cacheFiles, fs, now>>

\* a call of listTmux: tmux answers with its sessions, or fails
ListTmux ==
    \E tmuxSessions \in TmuxLists, blacklisted \in SUBSET TmuxNames, ok \in BOOLEAN :
        /\ ret' = IF ok
                  THEN [op |-> "listTmux", sessions |-> listTmux(tmuxSessions, blacklisted).sessions,
                        err |-> NoError]
                  ELSE [op |-> "listTmux", sessions |-> Catalog(<<>>),
                        err |-> Error("tmux", "")]
        /\ UNCHANGED <<config, env, remote, cacheFiles, fs, now>>

NextCatalog == ListGitHub \/ ListConfig \/ ListTmux

SpecCatalog == InitCatalog /\ [][NextCatalog]_vars

\* a lister returned
ListerReturned == ret.op \in {"listGitHub", "listConfig", "listTmux"}

\* no key occurs twice in the index
NoDuplicateKey(index) ==
    \A i, j \in 1..Len(index) : index[i] = index[j] => i = j

\* C4: every catalog a lister returns has an OrderedIndex without duplicate
\* keys, of the length of the number of entries of its Directory, and with
\* keys of the Directory only
C4_CatalogWellFormed ==
    ListerReturned =>
        /\ NoDuplicateKey(ret.sessions.OrderedIndex)
        /\ Len(ret.sessions.OrderedIndex) = Cardinality(DOMAIN ret.sessions.Directory)
        /\ \A i \in 1..Len(ret.sessions.OrderedIndex) :
              ret.sessions.OrderedIndex[i] \in DOMAIN ret.sessions.Directory

\* the repository's archived flag or disabled flag is set
Flagged(repo) == repo.Archived \/ repo.Disabled

\* the keys of the repositories of the listing with a flag set, or with none
KeysOfRepos(flagged) ==
    UNION { { GitHubKey(o, ret.allRepos[o][i].Name) :
                i \in { j \in 1..Len(ret.allRepos[o]) :
                          Flagged(ret.allRepos[o][j]) = flagged } } :
            o \in DOMAIN ret.allRepos }

\* C5: no archived or disabled repository of the listing has an entry in
\* the remote-repo catalog; every entry is a repository with neither flag
C5_ArchivedDisabledExcluded ==
    ret.op = "listGitHub" =>
        /\ DOMAIN ret.sessions.Directory \cap KeysOfRepos(TRUE) = {}
        /\ DOMAIN ret.sessions.Directory \subseteq KeysOfRepos(FALSE)
        /\ \A i \in 1..Len(ret.sessions.OrderedIndex) :
              ret.sessions.OrderedIndex[i] \notin KeysOfRepos(TRUE)

\* a catalog with entries, from a listing with a disabled repository and
\* with an archived repository of the personal scope that is cloned on disk
C5_Witness ==
    /\ ret.op = "listGitHub"
    /\ DOMAIN ret.sessions.Directory # {}
    /\ \E o \in DOMAIN ret.allRepos : \E i \in 1..Len(ret.allRepos[o]) :
          /\ ret.allRepos[o][i].Archived
          /\ Cloned(config.GitHub, o, ret.allRepos[o][i], fs)
          /\ config.GitHub.IncludePersonal
    /\ \E o \in DOMAIN ret.allRepos : \E i \in 1..Len(ret.allRepos[o]) :
          ret.allRepos[o][i].Disabled

\* the clone-then-cd instruction for a URL and a target
CloneThenCd(url, target) ==
    << <<"git">>, <<"clone">> >> \o url \o target \o << <<"&&">>, <<"cd">> >> \o target

\* the session is in materialized form for the clone path
Materialized(session, clonePath) ==
    /\ clonePath \in fs
    /\ session.Path = clonePath
    /\ session.StartupCommand = T("")

\* the session is in un-materialized form for the repository and clone path
Unmaterialized(session, repo, clonePath) ==
    /\ session.Path = clonePath
    /\ session.StartupCommand =
          CloneThenCd(IF config.GitHub.UseSSH THEN repo.SSHURL ELSE repo.CloneURL,
                      clonePath)

\* C11: every remote-repo session of the catalog is either materialized
\* (its clone path exists, is its path, and it has no startup command) or
\* un-materialized (its path is the clone path and its startup command
\* clones the SSH or HTTPS URL, as configured, to that path and enters it),
\* never both
C11_TwoForms ==
    ret.op = "listGitHub" =>
        /\ DOMAIN ret.sessions.Directory \subseteq KeysOfRepos(FALSE)
        /\ \A o \in DOMAIN ret.allRepos : \A i \in 1..Len(ret.allRepos[o]) :
              LET repo == ret.allRepos[o][i]
                  key == GitHubKey(o, repo.Name)
                  clonePath == JoinElems(CloneDirOf(config.GitHub),
                                         <<"github.com", o, repo.Name>>)
              IN  key \in DOMAIN ret.sessions.Directory =>
                    LET session == ret.sessions.Directory[key]
                    IN  /\ session.Src = "github"
                        /\ Materialized(session, clonePath)
                              # Unmaterialized(session, repo, clonePath)

\* a catalog with a materialized session and an un-materialized one whose
\* command clones the SSH URL
C11_Witness ==
    /\ ret.op = "listGitHub"
    /\ config.GitHub.UseSSH
    /\ \E k1, k2 \in DOMAIN ret.sessions.Directory :
          /\ ret.sessions.Directory[k1].StartupCommand = T("")
          /\ ret.sessions.Directory[k1].Path \in fs
          /\ ret.sessions.Directory[k2].StartupCommand # T("")
          /\ ret.sessions.Directory[k2].Path \notin fs

\* the scopes whose repositories the listing turned into sessions: the
\* configured ones with a list, and the user behind the token if personal
\* repositories are on and the name resolved
CatalogScopes ==
    LET orgs == GetOrganizations(config.GitHub)
    IN  ({ orgs[i].Name : i \in 1..Len(orgs) } \cup
         (IF /\ config.GitHub.IncludePersonal
             /\ ret.who.err = NoError
             /\ ret.who.login # ""
          THEN { ret.who.login } ELSE {}))
        \cap DOMAIN ret.allRepos

ExclusiveSessions ==
    { i \in 1..Len(config.SessionConfigs) :
        /\ config.SessionConfigs[i].Name # ""
        /\ config.SessionConfigs[i].StartupCommand # T("")
        /\ config.SessionConfigs[i].DisableStartCommand }

\* C15: if a named session of the configuration declares both a startup
\* command and disable_start_command, listConfig returns an error and a
\* catalog with no session and no key
C15_ExclusiveIsFatal ==
    (ret.op = "listConfig" /\ ExclusiveSessions # {}) =>
        /\ ret.err # NoError
        /\ DOMAIN ret.sessions.Directory = {}
        /\ ret.sessions.OrderedIndex = <<>>

\* listConfig failed on a second session with both fields, after a valid
\* first session
C15_Witness ==
    /\ ret.op = "listConfig"
    /\ ExclusiveSessions = {2}
    /\ config.SessionConfigs[1].Name # ""
    /\ ret.err = Error("exclusive", "")
    /\ DOMAIN ret.sessions.Directory = {}

\* the personal repositories a listing has to show: the list the adapter
\* returned under the username, and with no list returned the user's
\* repositories at the provider
PersonalList ==
    IF remote.login \in DOMAIN ret.allRepos
    THEN ret.allRepos[remote.login]
    ELSE remote.repos[remote.login]

\* personal repositories are on, a token is usable, the username resolves
\* and no request of the listing for the username or the user's list failed
PersonalResolved ==
    /\ ret.op = "listGitHub"
    /\ ret.err = NoError
    /\ config.GitHub.IncludePersonal
    /\ GetTokenForOrg(config.GitHub, "") # ""
    /\ remote.login # ""
    /\ ret.who.err = NoError
    /\ \/ Len(GetOrganizations(config.GitHub)) = 0
       \/ remote.login \in DOMAIN ret.allRepos

\* every personal repository without the archived and disabled flags that
\* show-uncloned permits has its key in the catalog
PersonalListed ==
    \A i \in 1..Len(PersonalList) :
        LET repo == PersonalList[i]
            key == GitHubKey(remote.login, repo.Name)
            clonePath == JoinElems(CloneDirOf(config.GitHub),
                                   <<"github.com", remote.login, repo.Name>>)
        IN  (~Flagged(repo) /\ (clonePath \in fs \/ config.GitHub.ShowUncloned # "false")) =>
              /\ key \in DOMAIN ret.sessions.Directory
              /\ \E n \in 1..Len(ret.sessions.OrderedIndex) :
                    ret.sessions.OrderedIndex[n] = key

\* C18: with personal repositories on, a usable token and a username that
\* resolves, every personal repository without the archived and disabled
\* flags that show-uncloned permits is in the catalog under
\* github:<username>/<repo>, for any number of configured scopes, none
\* included
C18_PersonalReposListed == PersonalResolved => PersonalListed

\* the repository passed the filters of the listing: neither archived nor
\* disabled, and cloned or un-cloned repositories shown
PassedFilters(scope, repo) ==
    /\ ~Flagged(repo)
    /\ ClonePath(config.GitHub, scope, repo) \in fs \/ ShouldShowUncloned(config.GitHub)

\* the keys of the repositories of the adapter's list of a scope that passed
\* the filters, in the list's order; nothing for a scope the adapter did not
\* return
KeysOfScope(scope) ==
    IF scope \notin DOMAIN ret.allRepos THEN <<>>
    ELSE LET passed == SelectSeq(ret.allRepos[scope], LAMBDA r : PassedFilters(scope, r))
         IN  [ i \in 1..Len(passed) |-> "github:" \o scope \o "/" \o passed[i].Name ]

\* the keys of the configured scopes from the i-th on, scope after scope
RECURSIVE KeysFrom(_, _)
KeysFrom(orgs, i) ==
    IF i > Len(orgs) THEN <<>>
    ELSE KeysOfScope(orgs[i].Name) \o KeysFrom(orgs, i + 1)

\* the keys of the personal repositories, if the lister resolved the user
PersonalKeys ==
    IF config.GitHub.IncludePersonal /\ ret.who.err = NoError /\ ret.who.login # ""
    THEN KeysOfScope(ret.who.login)
    ELSE <<>>

\* C27: the OrderedIndex of the remote-repo catalog holds the keys scope by
\* scope in the order of the configuration, the personal repositories last,
\* and within a scope the repositories of the adapter's list that passed the
\* filters, in the order of that list
C27_ScopeThenDiscoveryOrder ==
    (ret.op = "listGitHub" /\ ret.err = NoError /\ DOMAIN ret.allRepos # {}) =>
        ret.sessions.OrderedIndex =
            KeysFrom(GetOrganizations(config.GitHub), 1) \o PersonalKeys

\* a catalog of two organizations and the personal repositories: the keys
\* of the first scope, then the second scope's with its disabled repository
\* left out, the personal ones last, in the adapter's order, which is not
\* the alphabetical one, with the archived repository between them left out
C27_Witness ==
    /\ ret.op = "listGitHub"
    /\ ret.sessions.OrderedIndex =
          << "github:acme/widgets", "github:beta/widgets",
             "github:u1/widgets", "github:u1/secret" >>
    /\ Len(ret.allRepos["beta"]) = 2
    /\ Len(ret.allRepos["u1"]) = 3

---------------------------------------------------------------------------
(* Connecting to a remote-repo session *)

\* the names a connection is asked for: display names, a key, a name of no
\* session
ConnectNames ==
    {"acme/widgets", "github:acme/widgets", "u1/widgets", "B/widgets", "nope"}

\* the configurations of the connect specification
ConnectConfigs == CatalogConfigs \ { TwoOrgsAndPersonal }

InitConnect ==
    /\ config \in { Config(g, <<>>) : g \in ConnectConfigs }
    /\ env = EnvOf(config.GitHub)
    /\ remote = Provider
    /\ cacheFiles = NoFiles
    /\ fs \in DiskChoices(config.GitHub)
    /\ now = 0
    /\ ret = [op |-> "init"]

\* git clone was among the operations made
Invoked(calls, what) == \E i \in 1..Len(calls) : calls[i] = what

\* the connects so far whose clone succeeded and created the session's
\* clone target: the name asked for and the session returned
ClonedBefore == IF ret.op = "githubStrategy" THEN ret.cloned ELSE {}

\* a call of githubStrategy; `before` and `cloned` are ClonedBefore before
\* and after it
Connect ==
    \E name \in ConnectNames :
      \E out \in githubStrategy(config.GitHub, name, cacheFiles, now, fs) :
        /\ cacheFiles' = out.files
        /\ fs' = out.disk
        /\ ret' = [op |-> "githubStrategy", name |-> name, conn |-> out.conn,
                   err |-> out.err, seen |-> out.seen, sessions |-> out.sessions,
                   calls |-> out.calls, args |-> out.args, mkdir |-> out.mkdir,
                   before |-> ClonedBefore,
                   cloned |-> IF /\ Invoked(out.calls, "Clone")
                                 /\ out.err = NoError
                                 /\ out.seen.Path \in out.disk
                              THEN ClonedBefore \cup
                                   { [asked |-> name, session |-> out.conn.Session] }
                              ELSE ClonedBefore]
        /\ UNCHANGED <<config, env, remote, now>>

NextConnect == Connect

SpecConnect == InitConnect /\ [][NextConnect]_vars

\* githubStrategy returned Found without error for a session that was
\* un-cloned in the catalog
ConnectedUncloned ==
    /\ ret.op = "githubStrategy"
    /\ ret.conn.Found
    /\ ret.err = NoError
    /\ ret.seen.StartupCommand # T("")

\* C6: a session that was un-cloned in the catalog is returned with an empty
\* startup command and with the catalog entry's clone target as its path,
\* and the clone target exists on disk
C6_UnclonedIsMaterialized ==
    ConnectedUncloned =>
        /\ ret.conn.Session.StartupCommand = T("")
        /\ ret.conn.Session.Path = ret.seen.Path
        /\ ret.seen.Path \in fs

\* the clone URLs the provider's repositories have
ProviderURLs ==
    UNION { { remote.repos[o][i].CloneURL, remote.repos[o][i].SSHURL } :
              <<o, i>> \in { <<p, j>> \in CacheScopes \X (1..3) : j <= Len(remote.repos[p]) } }

\* C30: for the clone URL and the clone path listGitHub put into the startup
\* command of the un-materialized session the strategy found, the strategy
\* recovers that URL and that path: git.Clone is called with that URL, the
\* path's parent directory and the path's last element, and the session
\* returned has that path
C30_CloneRoundTrip ==
    (ret.op = "githubStrategy" /\ ret.seen.StartupCommand # T("")) =>
        \E url \in ProviderURLs :
            /\ ret.seen.StartupCommand = CloneCommand(url, ret.seen.Path)
            /\ Invoked(ret.calls, "Clone") =>
                  /\ ret.args[1] = url
                  /\ JoinText(ret.args[2], ret.args[3]) = ret.seen.Path
                  /\ Len(ret.args[3]) = 1 /\ Len(ret.args[3][1]) = 1
            /\ ret.err = NoError => ret.conn.Session.Path = ret.seen.Path

\* the name is no display name and no key of the catalog the lister built
NoMatch ==
    \A k \in DOMAIN ret.sessions.Directory :
        k # ret.name /\ ret.sessions.Directory[k].Name # ret.name

\* C13: a connect for a name that is no session's display name and no key
\* of the catalog returns Found = false and a nil error, calls neither
\* MkdirAll nor git clone, and leaves the disk as it was
C13_CleanNotFound ==
    [][(ret'.op = "githubStrategy" /\ NoMatch') =>
          /\ ~ret'.conn.Found
          /\ ret'.err = NoError
          /\ ret'.calls = <<>>
          /\ fs' = fs]_vars

\* a connect for a name of no session, over a catalog that has sessions
C13_Witness ==
    /\ ret.op = "githubStrategy"
    /\ NoMatch
    /\ DOMAIN ret.sessions.Directory # {}
    /\ ~ret.conn.Found

\* the connects before this one that asked for the same name or got the
\* same session
SameSessionBefore ==
    { h \in ret.before :
        h.asked = ret.name \/ h.session.Name = ret.seen.Name }

\* git clone is invoked only for a session whose clone target is not on disk
CloneOnlyIfAbsent ==
    [][(ret'.op = "githubStrategy" /\ Invoked(ret'.calls, "Clone")) =>
          /\ ret'.seen.Path \notin fs
          /\ SplitSpaces(ret'.seen.StartupCommand)[4] \notin fs]_vars

\* C14 as stated: after a connect whose clone succeeded and created the
\* target, every connect to the same session invokes no clone and returns
\* the session that connect returned
C14_EveryConnectReturnsSame ==
    ret.op = "githubStrategy" =>
        \A h \in SameSessionBefore :
            /\ ~Invoked(ret.calls, "Clone")
            /\ ret.conn.Found
            /\ ret.conn.Session = h.session

\* C14: git clone is invoked only when the clone target is not on disk;
\* after a connect whose clone succeeded and created the target, no connect
\* to the same session invokes a clone, and every such connect that finds
\* the session returns the session that connect returned, without error
C14_CloneOnce ==
    /\ CloneOnlyIfAbsent
    /\ [](ret.op = "githubStrategy" =>
            \A h \in SameSessionBefore :
                /\ ~Invoked(ret.calls, "Clone")
                /\ ret.err = NoError
                /\ ret.conn.Found => ret.conn.Session = h.session
                /\ ret.seen # NoSession => ret.conn.Found)

\* a second connect to a session after the connect that cloned it: the
\* session is found materialized and returned as it was the first time
C14_Witness ==
    /\ ret.op = "githubStrategy"
    /\ ret.calls = <<>>
    /\ ret.conn.Found
    /\ ret.seen.StartupCommand = T("")
    /\ \E h \in ret.before : h.asked = ret.name /\ h.session = ret.conn.Session

---------------------------------------------------------------------------
(* The cache alone: Set, Get and the clock *)

InitCache ==
    /\ config = Config(NoGitHubConfig, <<>>)
    /\ env = NoEnv
    /\ remote = NoRemote
    /\ fs = {}
    /\ now = 0
    /\ ret = [op |-> "init"]
    /\ cacheFiles \in
         { NoFiles,
           [NoFiles EXCEPT ![CacheRoot] = DirFile,
                           ![getCacheFilePath("acme")] = UnreadableFile],
           [NoFiles EXCEPT ![CacheRoot] = DirFile,
                           ![getCacheFilePath("acme")] = GarbageFile] }

\* a call of RealCache.Set
CacheSet ==
    \E org \in {"", "acme"}, repos \in RepoLists, timeout \in AdapterTimeouts :
      \E io \in SetOutcomesFor(cacheFiles, org) :
        /\ cacheFiles' = Set(cacheFiles, now, org, repos, timeout, io)
        /\ ret' = [op |-> "Set", org |-> org, repos |-> repos, timeout |-> timeout,
                   io |-> io, file |-> cacheFiles[getCacheFilePath(org)]]
        /\ UNCHANGED <<config, env, remote, fs, now>>

\* a call of RealCache.Get
CacheGet ==
    \E org \in {"", "acme", "beta"} :
        /\ ret' = [op |-> "Get", org |-> org,
                   found |-> Get(cacheFiles, now, org).found,
                   repos |-> Get(cacheFiles, now, org).repos]
        /\ UNCHANGED <<config, env, remote, cacheFiles, fs, now>>

NextCache == Tick \/ CacheSet \/ CacheGet

SpecCache == InitCache /\ [][NextCache]_vars

---------------------------------------------------------------------------
(* Claims about the cache *)

\* the Get that follows the last operation at once
GetNow(org) == Get(cacheFiles, now, org)

Expired(org) ==
    /\ cacheFiles[getCacheFilePath(org)].kind = "entry"
    /\ now > cacheFiles[getCacheFilePath(org)].expires_at

\* this step is a call of Set for the scope
SetStepOn(org) == ret' # ret /\ ret'.op = "Set" /\ ret'.org = org

\* C3: a Get of a scope whose entry has expired returns not-found; and unless
\* a step is a Set for that scope, it leaves the expired entry's file in
\* place, unchanged and still expired, so Get goes on returning not-found.
C3_TTLExpiry ==
    /\ [](\A org \in CacheScopes :
            Expired(org) => /\ ~GetNow(org).found
                            /\ (ret.op = "Get" /\ ret.org = org) => ~ret.found)
    /\ [][\A org \in CacheScopes :
            (Expired(org) /\ ~SetStepOn(org))
                => /\ cacheFiles'[getCacheFilePath(org)] = cacheFiles[getCacheFilePath(org)]
                   /\ Expired(org)']_vars

C3_Witness ==
    /\ ret.op = "Get" /\ ~ret.found
    /\ Expired(ret.org)
    /\ cacheFiles[getCacheFilePath(ret.org)].expires_at >= 0

---------------------------------------------------------------------------
(* GetOrganizations alone, on every configuration of the bounds *)

\* entries of github.organizations: a name, an optional alias and token
OrgEntries ==
    { GitHubOrgConfig("acme", "", ""),
      GitHubOrgConfig("acme", "A", "orgtok"),
      GitHubOrgConfig("beta", "acme", "") }

OrgsConfigs ==
    { GitHubConfig(orgs, legacy, token, 0, T(""), FALSE, FALSE, "nil", "nil") :
        <<orgs, legacy, token>> \in
            AllSeqsUpTo(OrgEntries, MaxOrgs) \X {"", "acme", "beta", "u1"} \X {"", "tok"} }

InitOrgs ==
    /\ config \in { Config(g, <<>>) : g \in OrgsConfigs }
    /\ env = NoEnv
    /\ remote = NoRemote
    /\ cacheFiles = NoFiles
    /\ fs = {}
    /\ now = 0
    /\ ret = [op |-> "init"]

\* a call of GitHubConfig.GetOrganizations
CallGetOrganizations ==
    /\ ret.op = "init"
    /\ ret' = [op |-> "GetOrganizations", orgs |-> GetOrganizations(config.GitHub)]
    /\ UNCHANGED <<config, env, remote, cacheFiles, fs, now>>

\* a call of GitHubConfig.GetTokenForOrg
CallGetTokenForOrg ==
    \E orgName \in {"", "acme", "beta"} :
        /\ ret.op = "init"
        /\ ret' = [op |-> "GetTokenForOrg", org |-> orgName,
                   token |-> GetTokenForOrg(config.GitHub, orgName)]
        /\ UNCHANGED <<config, env, remote, cacheFiles, fs, now>>

NextOrgs == CallGetOrganizations \/ CallGetTokenForOrg

SpecOrgs == InitOrgs /\ [][NextOrgs]_vars

\* how many entries of a scope list carry the name
Count(orgs, name) == Cardinality({ i \in 1..Len(orgs) : orgs[i].Name = name })

NoRepeatedName(orgs) ==
    \A i, j \in 1..Len(orgs) : orgs[i].Name = orgs[j].Name => i = j

\* the legacy name appended: the list kept, and one last entry with that
\* name, that alias, and the global token
LegacyAppended(c, out) ==
    /\ Len(out) = Len(c.Organizations) + 1
    /\ SubSeq(out, 1, Len(c.Organizations)) = c.Organizations
    /\ Last(out).Name = c.Organization
    /\ Last(out).DisplayName = c.Organization
    /\ Last(out).Token = c.Token

\* C7 as claimed: a legacy name found in the scope list leaves the list
\* unchanged, with exactly one entry of that name; a legacy name absent from
\* it is appended last; an empty legacy name appends nothing.
C7_FoldInExactlyOne ==
    ret.op = "GetOrganizations" =>
        LET c == config.GitHub
        IN  /\ (c.Organization # "" /\ Count(c.Organizations, c.Organization) > 0)
                => (ret.orgs = c.Organizations /\ Count(ret.orgs, c.Organization) = 1)
            /\ (c.Organization # "" /\ Count(c.Organizations, c.Organization) = 0)
                => LegacyAppended(c, ret.orgs)
            /\ c.Organization = "" => ret.orgs = c.Organizations

\* C7, amended: a legacy name found in the scope list leaves the list
\* unchanged, so with exactly one entry of that name when the list holds
\* the name once; a legacy name absent from it is appended last, with alias
\* equal to the name and the global token; an empty one appends nothing.
C7_FoldIn ==
    ret.op = "GetOrganizations" =>
        LET c == config.GitHub
        IN  /\ (c.Organization # "" /\ Count(c.Organizations, c.Organization) > 0)
                => /\ ret.orgs = c.Organizations
                   /\ Count(c.Organizations, c.Organization) = 1
                        => Count(ret.orgs, c.Organization) = 1
            /\ (c.Organization # "" /\ Count(c.Organizations, c.Organization) = 0)
                => LegacyAppended(c, ret.orgs)
            /\ c.Organization = "" => ret.orgs = c.Organizations

C7_Witness ==
    /\ ret.op = "GetOrganizations"
    /\ config.GitHub.Organization = "acme"
    /\ Count(config.GitHub.Organizations, "acme") = 1
    /\ Len(config.GitHub.Organizations) = 2
    /\ Count(ret.orgs, "acme") = 1

\* C8 as claimed: on every configuration the effective scope list holds no
\* two entries of the same name.
C8_NoRepeatedNameEver ==
    ret.op = "GetOrganizations" => NoRepeatedName(ret.orgs)

\* C8, amended: GetOrganizations adds no repetition. A name occurs in the
\* effective scope list as often as in the configured one, but for the
\* legacy name absent from it, which occurs once; so the effective list has
\* no repeated name when the configured list has none.
C8_NoRepetitionAdded ==
    ret.op = "GetOrganizations" =>
        LET c == config.GitHub
        IN  /\ \A name \in {"", "acme", "beta", "u1"} :
                  Count(ret.orgs, name) =
                    IF name = c.Organization /\ name # "" /\ Count(c.Organizations, name) = 0
                    THEN 1 ELSE Count(c.Organizations, name)
            /\ NoRepeatedName(c.Organizations) => NoRepeatedName(ret.orgs)

C8_Witness ==
    /\ ret.op = "GetOrganizations"
    /\ config.GitHub.Organization = "beta"
    /\ NoRepeatedName(config.GitHub.Organizations)
    /\ Count(config.GitHub.Organizations, "beta") = 1
    /\ Len(ret.orgs) = 2 /\ NoRepeatedName(ret.orgs)

---------------------------------------------------------------------------
(* The shorthand converter *)

\* owner names, and repository names with and without a `.git` suffix
OwnerNames == AllSeqsUpTo({"a", "."}, MaxName) \ { <<>> }
RepoNames == OwnerNames \cup { n \o DotGit : n \in OwnerNames }

\* the forms of input
InputForms == {"shorthand", "https", "https.git", "bare", "www/", "name"}

\* the input of a form for an owner and a repository
InputOf(form, owner, repo) ==
    LET pair == owner \o <<"/">> \o repo
    IN  IF form = "shorthand" THEN pair
        ELSE IF form = "https" THEN HTTPSPrefix \o pair
        ELSE IF form = "https.git" THEN HTTPSPrefix \o pair \o DotGit
        ELSE IF form = "bare" THEN HostSlash \o pair
        ELSE IF form = "www/" THEN SchemeHTTP \o WWWDot \o HostSlash \o pair \o <<"/">>
        ELSE owner

InitShorthand ==
    /\ config \in { Config(GitHubConfig(<<>>, "", "", 0, T(""), ssh, FALSE, "nil", "nil"),
                            <<>>) : ssh \in BOOLEAN }
    /\ env = NoEnv
    /\ remote = NoRemote
    /\ cacheFiles = NoFiles
    /\ fs = {}
    /\ now = 0
    /\ ret \in { [op |-> "input", form |-> form, owner |-> owner, name |-> repo,
                  result |-> FALSE] :
                    <<form, owner, repo>> \in InputForms \X OwnerNames \X RepoNames }

\* the converter called on the input of the behaviour
CallIsGitHubShorthand ==
    /\ ret' = [ret EXCEPT !.op = "IsGitHubShorthand",
                          !.result = IsGitHubShorthand(InputOf(ret.form, ret.owner, ret.name))]
    /\ UNCHANGED <<config, env, remote, cacheFiles, fs, now>>

CallExtractOrgAndRepo ==
    /\ ret' = [ret EXCEPT !.op = "ExtractOrgAndRepo",
                          !.result = ExtractOrgAndRepo(InputOf(ret.form, ret.owner, ret.name))]
    /\ UNCHANGED <<config, env, remote, cacheFiles, fs, now>>

CallConvertToURL ==
    /\ ret' = [ret EXCEPT !.op = "ConvertToURL",
                          !.result = ConvertToURL(InputOf(ret.form, ret.owner, ret.name),
                                                  config.GitHub)]
    /\ UNCHANGED <<config, env, remote, cacheFiles, fs, now>>

NextShorthand == CallIsGitHubShorthand \/ CallExtractOrgAndRepo \/ CallConvertToURL

SpecShorthand == InitShorthand /\ [][NextShorthand]_vars

\* C16: ExtractOrgAndRepo succeeds on "owner/repo" and on
\* "https://github.com/owner/repo" and yields (owner, repo) for both
C16_ShorthandURLEquivalence ==
    (ret.op = "ExtractOrgAndRepo" /\ ret.form \in {"shorthand", "https"}) =>
        /\ ret.result.err = NoError
        /\ ret.result.org = ret.owner
        /\ ret.result.repo = ret.name

\* the URL form of a repository whose name ends in ".git", taken apart
C16_Witness ==
    /\ ret.op = "ExtractOrgAndRepo"
    /\ ret.form = "https"
    /\ Len(ret.name) > Len(DotGit)
    /\ Drop(ret.name, Len(ret.name) - Len(DotGit)) = DotGit
    /\ ret.result.repo = ret.name

\* the clone URL of an owner and a repository
CloneURLOf(owner, repo) ==
    (IF config.GitHub.UseSSH THEN SSHPrefix ELSE HTTPSPrefix)
        \o owner \o <<"/">> \o repo \o DotGit

\* C17: "https://github.com/owner/repo.git" is accepted by
\* IsGitHubShorthand, and ConvertToURL maps it to the clone URL of
\* "owner/repo"
C17_DotGitURLSameAsShorthand ==
    /\ (ret.op = "IsGitHubShorthand" /\ ret.form = "https.git") => ret.result
    /\ (ret.op = "ConvertToURL" /\ ret.form \in {"shorthand", "https.git"}) =>
          /\ ret.result.err = NoError
          /\ ret.result.url = CloneURLOf(ret.owner, ret.name)

---------------------------------------------------------------------------
(* The cloner *)

\* the repositories asked for: shorthand, GitHub URLs, URLs of another
\* host, a local path, and inputs that do not parse
CloneRepos ==
    { <<"a", "/", "b">>,
      HTTPSPrefix \o <<"a", "/", "b">> \o DotGit,
      HostSlash \o <<"a", "/", "b", "/">>,
      SchemeHTTPS \o <<"x", ".", "y", "/", "o", "/", "r">> \o DotGit,
      GitAt \o <<"x", ".", "y", ":", "o", "/", "r">> \o DotGit,
      GitAt \o <<"x", ".", "y", ":", "2", ":", "o", "/", "r">>,
      <<"/", "s", "/", "r">>,
      <<":", "r">> }

\* the options of a clone
CloneOptions ==
    { GitCloneOptions(repo, cmdDir, dir) :
        <<repo, cmdDir, dir>> \in CloneRepos \X { <<>>, <<"/", "c">>, <<"c", "/", "e">> }
                                              \X { <<>>, <<"d">> } }

\* the clone directories of the configuration
CloneDirs == { <<>>, <<"~", "/", "w">>, <<"/", "w">> }

\* $HOME, set and unset
Homes == { <<"/", "h">>, <<>> }

InitCloner ==
    /\ config \in { Config([GitHubConfig(<<>>, "", "", 0, T(""), ssh, FALSE, "nil", "nil")
                            EXCEPT !.CloneDir = dir], <<>>) :
                      <<ssh, dir>> \in BOOLEAN \X CloneDirs }
    /\ env \in { [GITHUB_TOKEN |-> "", HOME |-> home] : home \in Homes }
    /\ remote = NoRemote
    /\ cacheFiles = NoFiles
    /\ fs = { Cwd }
    /\ now = 0
    /\ ret \in { [op |-> "input", opts |-> opts, path |-> <<>>, err |-> NoError,
                  calls |-> <<>>] : opts \in CloneOptions }

\* a call of Clone with the options of the behaviour
CallClone ==
    \E out \in Clone(ret.opts, config, fs) :
        /\ fs' = out.disk
        /\ ret' = [op |-> "Clone", opts |-> ret.opts, path |-> out.path,
                   err |-> out.err, calls |-> out.calls]
        /\ UNCHANGED <<config, env, remote, cacheFiles, now>>

NextCloner == CallClone

SpecCloner == InitCloner /\ [][NextCloner]_vars

\* the order of the steps
StepOrder == <<"MkdirAll", "Clone", "Connect">>
StepOf(what) == CHOOSE k \in 1..Len(StepOrder) : StepOrder[k] = what

\* the calls of the last Clone that are `what`
CallsOf(what) == { i \in 1..Len(ret.calls) : ret.calls[i].what = what }

\* C19: the calls of Clone are made in the order parent-directory creation,
\* clone, connect; the connector is called only after a clone that
\* succeeded and never after one that failed; when the clone succeeded and
\* the connect failed, Clone returns the connect error with an empty path
\* and the cloned directory is still there
C19_CloneThenConnect ==
    ret.op = "Clone" =>
        /\ \A i, j \in 1..Len(ret.calls) :
              i < j => StepOf(ret.calls[i].what) < StepOf(ret.calls[j].what)
        /\ \A j \in CallsOf("Connect") :
              \E i \in CallsOf("Clone") : i < j /\ ret.calls[i].err = NoError
        /\ (\E i \in CallsOf("Clone") : ret.calls[i].err # NoError) =>
              CallsOf("Connect") = {}
        /\ \A i \in CallsOf("Clone"), j \in CallsOf("Connect") :
              (ret.calls[i].err = NoError /\ ret.calls[j].err # NoError) =>
                 /\ ret.err = ret.calls[j].err
                 /\ ret.path = <<>>
                 /\ ret.calls[i].made \in fs

\* the parent directory was created, the clone succeeded and the connect
\* failed
C19_Witness ==
    /\ ret.op = "Clone"
    /\ Len(ret.calls) = Len(StepOrder)
    /\ ret.calls[StepOf("Clone")].err = NoError
    /\ ret.calls[StepOf("Clone")].made \in fs
    /\ ret.calls[StepOf("Connect")].err # NoError
    /\ ret.err = Error("connect", "")
    /\ ret.path = <<>>

---------------------------------------------------------------------------
(* The single-scope listing *)

\* the scopes ListRepos is asked for: organizations and a name that is none
ListReposScopes == {"acme", "beta", "org404"}

\* the cache directory a run may find: empty, or with the file of a scope
\* unreadable, damaged, or left by an earlier run with a list that expires
\* at once or later
FoundScopeFiles ==
    { NoFiles } \cup
    { [NoFiles EXCEPT ![CacheRoot] = DirFile, ![getCacheFilePath(o)] = f] :
        <<o, f>> \in {"acme", "org404"} \X
                     { UnreadableFile, GarbageFile, EntryFile(<<>>, 0),
                       EntryFile(<<Gadgets("acme")>>, MaxTime - 1) } }

InitListRepos ==
    /\ config = Config(NoGitHubConfig, <<>>)
    /\ env \in { NoEnv, [NoEnv EXCEPT !.GITHUB_TOKEN = "envtok"] }
    /\ remote = Provider
    /\ cacheFiles \in FoundScopeFiles
    /\ fs = {}
    /\ now = 0
    /\ ret = [op |-> "init"]

\* a call of RealGitHub.ListRepos, the client built with a token or none
CallListRepos ==
    \E org \in ListReposScopes, defaultToken \in {"", "tok"} :
      \E out \in ListRepos(org, defaultToken, cacheFiles, now) :
        /\ cacheFiles' = out.files
        /\ ret' = [op |-> "ListRepos", org |-> org, repos |-> out.repos,
                   err |-> out.err, asked |-> out.asked, answer |-> out.answer,
                   set |-> out.set, before |-> cacheFiles]
        /\ UNCHANGED <<config, env, remote, fs, now>>

NextListRepos == Tick \/ CallListRepos

SpecListRepos == InitListRepos /\ [][NextListRepos]_vars

\* what the cache held for the scope when ListRepos was called: a hit when
\* the scope's file was there, readable, deserializable and not expired
HeldBefore ==
    LET file == ret.before[getCacheFilePath(ret.org)]
    IN  IF Miss(file, now) THEN NotFound ELSE [found |-> TRUE, repos |-> file.repos]

\* C20: on a cache hit ListRepos returns the cached list and does not ask
\* the client; on a miss with a failed fetch it returns an error and does
\* not write the cache; on a miss with a fetch that succeeded it hands the
\* fetched list to the cache, which holds it for the default timeout when
\* the write succeeds, and returns the fetched list
C20_SingleScopeFailFast ==
    ret.op = "ListRepos" =>
        IF HeldBefore.found
        THEN /\ ret.err = NoError
             /\ ret.repos = HeldBefore.repos
             /\ ~ret.asked
             /\ cacheFiles = ret.before
        ELSE /\ ret.asked
             /\ IF ret.answer.err # NoError
                THEN /\ ret.err # NoError
                     /\ ret.set = "none"
                     /\ cacheFiles = ret.before
                ELSE /\ ret.err = NoError
                     /\ ret.repos = ret.answer.repos
                     /\ ret.set \in SetOutcomes
                     /\ ret.set = "ok" =>
                          cacheFiles[getCacheFilePath(ret.org)] =
                            EntryFile(ret.answer.repos, now + DefaultCacheTimeout)

\* a miss on an expired entry with a fetch that failed: the error is
\* returned and the expired entry is still in the cache
C20_Witness ==
    /\ ret.op = "ListRepos"
    /\ ret.before[getCacheFilePath(ret.org)].kind = "entry"
    /\ ~HeldBefore.found
    /\ ret.answer.err # NoError
    /\ ret.err # NoError
    /\ cacheFiles = ret.before

---------------------------------------------------------------------------
(* Clearing the cache *)

\* the paths of a cache directory with files that are no cache files
ClearPaths == CachePaths \cup { Append(CacheRoot, DirNames[i]) : i \in 1..Len(DirNames) }

\* the scopes asked for around a clear
ClearScopes == {"", "acme", "beta"}

NoClearFiles == [p \in ClearPaths |-> NoFile]

\* the directories a clear may find: no root, a root that is a regular
\* file, or a root with cache files, a damaged one, a directory named like
\* a cache file, a file of another kind and a subdirectory
FoundClearFiles ==
    { NoClearFiles, [NoClearFiles EXCEPT ![CacheRoot] = GarbageFile] } \cup
    { [NoClearFiles EXCEPT ![CacheRoot] = DirFile,
                           ![getCacheFilePath("acme")] = a,
                           ![getCacheFilePath("beta")] = b,
                           ![Append(CacheRoot, "notes.txt")] = n,
                           ![Append(CacheRoot, "sub")] = d] :
        <<a, b, n, d>> \in
            { NoFile, EntryFile(<<Widgets("acme")>>, MaxTime), GarbageFile, DirFile } \X
            { NoFile, EntryFile(<<>>, MaxTime), UnreadableFile } \X
            { NoFile, GarbageFile } \X { NoFile, DirFile } }

InitClear ==
    /\ config = Config(NoGitHubConfig, <<>>)
    /\ env = NoEnv
    /\ remote = NoRemote
    /\ cacheFiles \in FoundClearFiles
    /\ fs = {}
    /\ now = 0
    /\ ret = [op |-> "init", err |-> NoError, before |-> cacheFiles, cleared |-> FALSE,
              org |-> "", found |-> FALSE]

\* a call of clearGitHubCache
CallClear ==
    \E out \in clearGitHubCache(cacheFiles) :
        /\ cacheFiles' = out.files
        /\ ret' = [op |-> "clearGitHubCache", err |-> out.err, before |-> cacheFiles,
                   cleared |-> (out.err = NoError), org |-> "", found |-> FALSE]
        /\ UNCHANGED <<config, env, remote, fs, now>>

\* a Set after a clear, which ends what the clear is remembered for
SetAfterClear ==
    \E org \in ClearScopes :
      \E io \in SetOutcomesFor(cacheFiles, org) :
        /\ cacheFiles' = Set(cacheFiles, now, org, <<Gadgets("acme")>>,
                             DefaultCacheTimeout, io)
        /\ ret' = [op |-> "Set", err |-> NoError, before |-> NoClearFiles,
                   cleared |-> FALSE, org |-> org, found |-> FALSE]
        /\ UNCHANGED <<config, env, remote, fs, now>>

\* a Get after a clear
GetAfterClear ==
    \E org \in ClearScopes :
        /\ ret' = [ret EXCEPT !.op = "Get", !.org = org,
                              !.found = Get(cacheFiles, now, org).found]
        /\ UNCHANGED <<config, env, remote, cacheFiles, fs, now>>

\* time passes after a clear
TickAfterClear ==
    /\ now < MaxTime
    /\ now' = now + 1
    /\ ret' = [ret EXCEPT !.op = "Tick"]
    /\ UNCHANGED <<config, env, remote, cacheFiles, fs>>

NextClear == CallClear \/ SetAfterClear \/ GetAfterClear \/ TickAfterClear

SpecClear == InitClear /\ [][NextClear]_vars

\* the files of the cache root that the clear has to remove: the scopes'
\* files that are no directories
ScopeFilePaths(files) ==
    { p \in { getCacheFilePath(o) : o \in CacheScopes \ {""} } : files[p].kind # "dir" }

\* C21: from a clear that returned without error until the next Set, Get
\* finds no scope; the clear left every path that is no ".json" file as it
\* was; and a clear that found no cache root succeeded and changed nothing
C21_BulkClear ==
    /\ ret.cleared =>
          /\ \A org \in CacheScopes : ~Get(cacheFiles, now, org).found
          /\ ret.op = "Get" => ~ret.found
    /\ (ret.op = "clearGitHubCache" /\ ret.err = NoError) =>
          \A p \in ClearPaths \ ScopeFilePaths(ret.before) : cacheFiles[p] = ret.before[p]
    /\ (ret.op = "clearGitHubCache" /\ ret.before[CacheRoot].kind = "none") =>
          /\ ret.err = NoError
          /\ cacheFiles = ret.before

\* a clear that removed two fresh entries and left the other file and the
\* subdirectory, followed by a Get that found nothing
C21_Witness ==
    /\ ret.op = "Get" /\ ret.cleared /\ ~ret.found /\ ret.org = "acme"
    /\ ret.before[getCacheFilePath("acme")].kind = "entry"
    /\ ret.before[getCacheFilePath("beta")].kind = "entry"
    /\ cacheFiles[getCacheFilePath("acme")].kind = "none"
    /\ cacheFiles[getCacheFilePath("beta")].kind = "none"
    /\ cacheFiles[Append(CacheRoot, "notes.txt")].kind = "garbage"
    /\ cacheFiles[Append(CacheRoot, "sub")].kind = "dir"

---------------------------------------------------------------------------
(* Two invocations writing the cache of one scope *)

\* the invocations, and the scope they list
Writers == {"w1", "w2"}
RaceScope == "acme"

\* the lists they fetched: repositories that serialize to the same length
RaceLists ==
    SeqsUpTo({ GitHubRepo(RaceScope, name, "", FALSE, FALSE, FALSE) :
                 name \in {"widgets", "gadgets"} }, MaxRepos)

\* a Set not yet called
Idle == [pc |-> "idle", repos |-> <<>>, data |-> <<>>, at |-> 0]

\* ret holds, next to the last operation: each invocation's Set (where it
\* is, its list, its document, how much of it is written), the pieces of the
\* scope's file, the lists Set was called with, the list of the Set that
\* finished last, whether two Sets ran at the same time, and what the last
\* Get returned
InitRace ==
    /\ config = Config(NoGitHubConfig, <<>>)
    /\ env = NoEnv
    /\ remote = NoRemote
    /\ cacheFiles = NoFiles
    /\ fs = {}
    /\ now = 0
    /\ ret = [op |-> "init", set |-> [w \in Writers |-> Idle], pieces |-> <<>>,
              supplied |-> {}, last |-> <<>>, overlapped |-> FALSE, got |-> NotFound]

\* Set is called: the directory is made and the document serialized
\* (lines 59-77)
SetBegin(w) ==
    /\ ret.set[w].pc = "idle"
    /\ \E repos \in RaceLists :
          ret' = [ret EXCEPT
                    !.op = "Set",
                    !.set[w] = [pc |-> "open", repos |-> repos, at |-> 0,
                                data |-> MarshalPieces(repos, now + DefaultCacheTimeout)],
                    !.supplied = @ \cup { repos },
                    !.overlapped = @ \/ \E v \in Writers \ {w} :
                                           ret.set[v].pc \in {"open", "write"}]
    /\ cacheFiles' = [cacheFiles EXCEPT ![CacheRoot] = DirFile]
    /\ UNCHANGED <<config, env, remote, fs, now>>

\* os.WriteFile opens the file, which empties it (line 80)
SetOpen(w) ==
    /\ ret.set[w].pc = "open"
    /\ ret' = [ret EXCEPT !.op = "Set", !.set[w].pc = "write", !.pieces = <<>>]
    /\ cacheFiles' = [cacheFiles EXCEPT ![getCacheFilePath(RaceScope)] = FileOf(<<>>)]
    /\ UNCHANGED <<config, env, remote, fs, now>>

\* os.WriteFile writes the next piece at its own offset; after the last
\* piece Set returns
SetWrite(w) ==
    /\ ret.set[w].pc = "write"
    /\ LET k      == ret.set[w].at + 1
           pieces == WriteAt(ret.pieces, ret.set[w].data, k)
           done   == k = Len(ret.set[w].data)
       IN  /\ ret' = [ret EXCEPT
                        !.op = "Set",
                        !.set[w].at = k,
                        !.set[w].pc = IF done THEN "done" ELSE "write",
                        !.pieces = pieces,
                        !.last = IF done THEN ret.set[w].repos ELSE @]
           /\ cacheFiles' = [cacheFiles EXCEPT ![getCacheFilePath(RaceScope)] =
                                                   FileOf(pieces)]
    /\ UNCHANGED <<config, env, remote, fs, now>>

\* a Get of the scope, at any point of the writers' progress
RaceGet ==
    /\ ret' = [ret EXCEPT !.op = "Get", !.got = Get(cacheFiles, now, RaceScope)]
    /\ UNCHANGED <<config, env, remote, cacheFiles, fs, now>>

NextRace == (\E w \in Writers : SetBegin(w) \/ SetOpen(w) \/ SetWrite(w)) \/ RaceGet

SpecRace == InitRace /\ [][NextRace]_vars

\* both invocations' Sets have finished
BothFinished == \A w \in Writers : ret.set[w].pc = "done"

---------------------------------------------------------------------------
(* A list operation of the client, page by page *)

\* the provider's pages are numbered 1..MaxPages
MaxPages == 3

\* the list operations of the client
ListOperations ==
    {"ListOrgReposWithToken", "ListAuthenticatedUserReposWithToken",
     "ListUserReposWithToken"}

\* what a page may hold: nothing, or two repositories named after the
\* page, the second without a description
PageRepos(p) ==
    { <<>>,
      << Repository("acme", "r" \o ToString(p), "d"),
         Repository("acme", "s" \o ToString(p), "nil") >> }

\* the providers: every page names any page as the next, or none
Providers ==
    [ 1..MaxPages -> UNION { [repos : PageRepos(p), NextPage : 0..MaxPages] :
                               p \in 1..MaxPages } ]

\* the provider holds on page p what that page may hold
ProviderWellFormed(pages) == \A p \in 1..MaxPages : pages[p].repos \in PageRepos(p)

InitPages ==
    /\ config = Config(NoGitHubConfig, <<>>)
    /\ env = NoEnv
    /\ remote \in { [pages |-> pages] : pages \in { q \in Providers : ProviderWellFormed(q) } }
    /\ cacheFiles = NoFiles
    /\ fs = {}
    /\ now = 0
    /\ ret \in { PageLoopStart(op) : op \in ListOperations }

\* one turn of the loop: the request fails or is answered.  A provider that
\* names pages for ever keeps the loop turning; the model follows it for
\* MaxPages requests
RequestPage ==
    /\ ret.pc = "loop"
    /\ Len(ret.requested) < MaxPages + 1
    /\ \E failed \in BOOLEAN :
          ret' = PageLoopStep(ret, Response(remote.pages, ret.Page), failed)
    /\ UNCHANGED <<config, env, remote, cacheFiles, fs, now>>

NextPages == RequestPage

SpecPages == InitPages /\ [][NextPages]_vars /\ WF_vars(RequestPage)

\* the provider's chain of next pages from page p ends within n pages
RECURSIVE ChainEnds(_, _, _)
ChainEnds(pages, p, n) ==
    /\ n > 0
    /\ pages[p].NextPage = 0 \/ ChainEnds(pages, pages[p].NextPage, n - 1)

\* the repositories of the responses from the k-th on, converted, in order
RECURSIVE Concatenation(_, _)
Concatenation(responses, k) ==
    IF k > Len(responses) THEN <<>>
    ELSE [ i \in 1..Len(responses[k].repos) |->
             GitHubRepo(responses[k].repos[i].Owner, responses[k].repos[i].Name,
                        IF responses[k].repos[i].Description = "nil" THEN ""
                        ELSE responses[k].repos[i].Description, FALSE, FALSE, FALSE) ]
         \o Concatenation(responses, k + 1)

\* the operation asks for the page the provider named, and for no page after
\* an answer that named none; it returns the collected repositories in page
\* order, or an error and no repository
PagesInOrder ==
    /\ \A k \in 2..Len(ret.requested) : ret.requested[k] = ret.responses[k - 1].NextPage
    /\ \A k \in 1..Len(ret.requested) : (k = 1) <=> (ret.requested[k] = 0)
    /\ \A k \in 1..(Len(ret.responses) - 1) : ret.responses[k].NextPage # 0
    /\ \A k \in 1..Len(ret.responses) :
          ret.responses[k] = remote.pages[IF k = 1 THEN 1 ELSE ret.requested[k]]
    /\ ret.pc = "returned" =>
          IF ret.err = NoError
          THEN /\ Len(ret.requested) = Len(ret.responses)
               /\ ret.responses[Len(ret.responses)].NextPage = 0
               /\ ret.repos = Concatenation(ret.responses, 1)
          ELSE /\ Len(ret.requested) = Len(ret.responses) + 1
               /\ ret.repos = <<>>
    /\ ret.pc = "loop" => ret.err = NoError /\ Len(ret.requested) = Len(ret.responses)

\* C28: a list operation asks for the page the provider named as next,
\* stops at the first answer that names none, and returns the repositories
\* of the answers in page order; a failed request makes it return an error
\* and no repository; and it returns whenever the provider's chain of next
\* pages ends
C28_Pagination ==
    /\ []PagesInOrder
    /\ ChainEnds(remote.pages, 1, MaxPages) ~> (ret.pc = "returned")

\* an operation that returned the repositories of three pages asked for out
\* of their numeric order
C28_Witness ==
    /\ ret.pc = "returned"
    /\ ret.err = NoError
    /\ ret.requested = <<0, 3, 2>>
    /\ Len(ret.repos) = 6
    /\ ret.repos[1].Name = "r1"
    /\ ret.repos[3].Name = "r3"
    /\ ret.repos[6].Name = "s2"
    /\ ret.repos[6].Description = ""

---------------------------------------------------------------------------
(* Listing the repositories of a user *)

\* the provider with tokens that belong to nobody
ProviderNoLogin == [Provider EXCEPT !.login = ""]

InitUserRepos ==
    /\ config = Config(NoGitHubConfig, <<>>)
    /\ env \in { [NoEnv EXCEPT !.GITHUB_TOKEN = t] : t \in {"", "envtok"} }
    /\ remote \in {Provider, ProviderNoLogin}
    /\ cacheFiles = NoFiles
    /\ fs = {}
    /\ now = 0
    /\ ret \in { [op |-> "input", username |-> username, token |-> token] :
                    <<username, token>> \in {"u1", "acme", "beta", "org404"} \X {"", "tok"} }

\* a call of RealClient.ListUserReposWithToken
CallListUserReposWithToken ==
    \E out \in ListUserReposWithToken(ret.username, ret.token) :
        /\ ret' = [op |-> "ListUserReposWithToken", username |-> ret.username,
                   token |-> ret.token, endpoint |-> out.endpoint,
                   lookup |-> out.lookup, err |-> out.err, repos |-> out.repos]
        /\ UNCHANGED <<config, env, remote, cacheFiles, fs, now>>

\* a call of RealClient.ListUserRepos, the client holding the token
CallListUserRepos ==
    \E out \in ListUserRepos(ret.username, ret.token) :
        /\ ret' = [op |-> "ListUserRepos", username |-> ret.username,
                   token |-> ret.token, endpoint |-> out.endpoint,
                   lookup |-> out.lookup, err |-> out.err, repos |-> out.repos]
        /\ UNCHANGED <<config, env, remote, cacheFiles, fs, now>>

NextUserRepos == CallListUserReposWithToken \/ CallListUserRepos

SpecUserRepos == InitUserRepos /\ [][NextUserRepos]_vars

\* the login of the identity the request is authenticated as: the owner of
\* the explicit token, or of the environment's token when the explicit one
\* is empty; "" for a request without a token or with a token of nobody
AuthenticatedAs ==
    IF (IF ret.token = "" THEN env.GITHUB_TOKEN ELSE ret.token) = "" THEN ""
    ELSE remote.login

\* the lookup of the identity was made and failed
LookupFailed == ret.lookup \notin {"none", "ok"}

\* C29: the own-repos endpoint is asked when the identity the request is
\* authenticated as, by the explicit token or by the environment's token
\* when the explicit one is empty, has the requested username as login; the
\* public endpoint is asked otherwise and when the lookup of the identity
\* failed
C29_EndpointChoice ==
    ret.op \in {"ListUserReposWithToken", "ListUserRepos"} =>
        IF AuthenticatedAs = ret.username /\ ~LookupFailed
        THEN ret.endpoint = "own"
        ELSE ret.endpoint = "public"

\* C29 for explicit tokens only: with an explicit token, the own-repos
\* endpoint is asked exactly when the lookup of its owner succeeded and gave
\* the requested username; without one the public endpoint is asked
C29_EndpointChoiceExplicit ==
    ret.op \in {"ListUserReposWithToken", "ListUserRepos"} =>
        IF ret.token # "" /\ AuthenticatedAs = ret.username /\ ~LookupFailed
        THEN ret.endpoint = "own" /\ ret.lookup = "ok"
        ELSE ret.endpoint = "public"

---------------------------------------------------------------------------
(* Creating the parent directory of a clone: the connector's strategy and  *)
(* the cloner, each on its own configurations                              *)

InitMkdir == InitConnect \/ InitCloner

\* a connect, in a behaviour that began with a connector's configuration
ConnectMkdir == ret.op \in {"init", "githubStrategy"} /\ Connect

\* a clone, in a behaviour that began with the options of a clone
CloneMkdir == ret.op \in {"input", "Clone"} /\ CallClone

NextMkdir == ConnectMkdir \/ CloneMkdir

SpecMkdir == InitMkdir /\ [][NextMkdir]_vars

\* the strategy's os.MkdirAll failed
StrategyMkdirFailed == ret.op = "githubStrategy" /\ ret.mkdir = "failed"

\* the cloner's os.MkdirAll failed
ClonerMkdirFailed ==
    /\ ret.op = "Clone"
    /\ \E i \in CallsOf("MkdirAll") : ret.calls[i].err # NoError

\* C31: when the creation of the clone target's parent directory fails,
\* githubStrategy returns an error and no Found connection and does not
\* invoke the clone, and Cloner.Clone returns an error and an empty path
\* and invokes neither the clone nor the connector
C31_MkdirFailureIsFatal ==
    /\ StrategyMkdirFailed =>
          /\ ret.err # NoError
          /\ ~ret.conn.Found
          /\ ~Invoked(ret.calls, "Clone")
          /\ ret.args = <<>>
    /\ ClonerMkdirFailed =>
          /\ ret.err # NoError
          /\ ret.path = <<>>
          /\ CallsOf("Clone") = {}
          /\ CallsOf("Connect") = {}

\* a connect to an un-cloned session whose parent directory could not be
\* made
C31_Witness ==
    /\ StrategyMkdirFailed
    /\ ret.seen.StartupCommand # T("")
    /\ ret.seen.Path \notin fs

\* a clone with a parent directory to make that could not be made
C31_WitnessCloner ==
    /\ ClonerMkdirFailed
    /\ ret.calls[1].what = "MkdirAll"

---------------------------------------------------------------------------
(* Looking a session up by name *)

\* two scopes under one display alias, and two scopes under their own names
AcmeAsB == GitHubOrgConfig("acme", "B", "")
FindConfigs ==
    { GitHubConfig(<<AcmeAsB, Beta>>, "", "tok", 0, T(""), FALSE, FALSE, "nil", "nil"),
      GitHubConfig(<<Acme, Beta>>, "", "tok", 0, T(""), FALSE, FALSE, "nil", "nil") }

\* the names looked up: display names, a key, a name of no session
FindNames == {"B/widgets", "acme/widgets", "github:acme/widgets", "nope"}

\* no lookup was made yet
NoLookup == [name |-> "", sessions |-> Catalog(<<>>), session |-> NoSession, exists |-> FALSE]

InitFind ==
    /\ config \in { Config(g, <<>>) : g \in FindConfigs }
    /\ env = EnvOf(config.GitHub)
    /\ remote = Provider
    /\ cacheFiles = NoFiles
    /\ fs = {}
    /\ now = 0
    /\ ret = [op |-> "init", this |-> NoLookup, prev |-> NoLookup]

\* a call of RealLister.FindGitHubSession (lines 345-365): the listing, then
\* the lookup in its catalog; `prev` is the lookup before this one
CallFindGitHubSession ==
    \E name \in FindNames :
      \E out \in listGitHub(config.GitHub, FALSE, cacheFiles, now, fs) :
        \E hit \in FindGitHubSession(out.sessions, name) :
          /\ cacheFiles' = out.files
          /\ ret' = [op |-> "FindGitHubSession",
                     this |-> [name |-> name, sessions |-> out.sessions,
                               session |-> hit.session, exists |-> hit.exists],
                     prev |-> ret.this]
          /\ UNCHANGED <<config, env, remote, fs, now>>

NextFind == CallFindGitHubSession

SpecFind == InitFind /\ [][NextFind]_vars

\* the keys of the catalog of the last lookup whose session has the display
\* name looked up
KeysNamed == { k \in DOMAIN ret.this.sessions.Directory :
                 ret.this.sessions.Directory[k].Name = ret.this.name }

\* the last lookup tried the display name first and the key second
NameThenKey ==
    IF KeysNamed # {}
    THEN ret.this.exists /\ ret.this.session.Name = ret.this.name
    ELSE IF ret.this.name \in DOMAIN ret.this.sessions.Directory
    THEN ret.this.exists /\ ret.this.session = ret.this.sessions.Directory[ret.this.name]
    ELSE ~ret.this.exists

\* the last two lookups were of one name in one catalog
SameLookup ==
    /\ ret.prev # NoLookup
    /\ ret.prev.name = ret.this.name
    /\ ret.prev.sessions = ret.this.sessions

\* C32: a lookup tries the display name first and the catalog key second,
\* and two lookups of one name in one catalog return the same session,
\* also when two entries of the catalog have that display name
C32_LookupDeterministic ==
    ret.op = "FindGitHubSession" =>
        /\ NameThenKey
        /\ SameLookup => /\ ret.prev.session = ret.this.session
                         /\ ret.prev.exists = ret.this.exists

\* C32 for display names that one entry has at most: the lookup tries the
\* display name first and the key second, and two lookups of one name in
\* one catalog return the same session
C32_LookupDeterministicUnique ==
    (ret.op = "FindGitHubSession" /\ Cardinality(KeysNamed) <= 1) =>
        /\ NameThenKey
        /\ SameLookup => /\ ret.prev.session = ret.this.session
                         /\ ret.prev.exists = ret.this.exists

============================================================================
